---- MODULE Spec2Model ----
(***************************************************************************)
(* A model of CompressionLogic (src/logic.js): the RLE, Huffman and LZW    *)
(* codecs, and of the App that uses them (src/unnamed/part_000): its text  *)
(* tab, its image tab and the step player of the two visualizers.  A       *)
(* JavaScript string is modelled as the sequence of its UTF-16 code units  *)
(* (natural numbers); a call is modelled by the steps of its loops.  Calls *)
(* are synchronous: starting a call discards the working structures of     *)
(* every earlier call.                                                     *)
(***************************************************************************)
EXTENDS Integers, Sequences, FiniteSets, TLC

VARIABLES rle, huff, lzw, app

vars == <<rle, huff, lzw, app>>

(***************************************************************************)
(* Code units and strings                                                  *)
(***************************************************************************)
Char0 == 48
Char9 == 57
CharA == 65
CharB == 66
CharC == 67
CharComma == 44

IsDigit(c) == c \in Char0..Char9

\* char.repeat(n) for a one-unit string
RepeatChar(c, n) == [k \in 1..n |-> c]

\* the strings over alphabet of length at most n
RECURSIVE StringsUpTo(_, _)
StringsUpTo(alphabet, n) ==
  IF n = 0 THEN {<<>>}
  ELSE LET shorter == StringsUpTo(alphabet, n - 1)
       IN  shorter \cup {Append(s, c) : s \in shorter, c \in alphabet}

\* String(n) of a non-negative integer: its decimal digits
RECURSIVE DecStr(_)
DecStr(n) ==
  IF n < 10 THEN <<Char0 + n>>
  ELSE Append(DecStr(n \div 10), Char0 + (n % 10))

\* the value of a string of decimal digits
RECURSIVE DecValue(_)
DecValue(ds) ==
  IF ds = <<>> THEN 0
  ELSE 10 * DecValue(SubSeq(ds, 1, Len(ds) - 1)) + (ds[Len(ds)] - Char0)

\* ds without its leading zeros
StripZeros(ds) ==
  LET nz == {k \in 1..Len(ds) : ds[k] # Char0}
  IN  IF nz = {} THEN <<>>
      ELSE SubSeq(ds, CHOOSE k \in nz : \A j \in nz : k <= j, Len(ds))

\* A value a call hands back: a returned string, or an exception thrown
\* across the call boundary.
Returned(s) == [kind |-> "value", val |-> s, err |-> "none"]
Thrown(e) == [kind |-> "throw", val |-> <<>>, err |-> e]

\* a/b, not multiplied by 100
RatioFraction(a, b) == [num |-> a, den |-> b]

\* a/b * 100 as an exact fraction
Ratio(a, b) == [num |-> a * 100, den |-> b]
RatioZero == [num |-> 0, den |-> 1]

(***************************************************************************)
(* RLE: rle.encode                                                         *)
(***************************************************************************)
\* a count that never looks at the next symbol
RleCountSingle(text, i, count) == count

\* the inner while loop: the length of the run that starts at 0-based i
RECURSIVE RleCount(_, _, _)
RleCount(text, i, count) ==
  IF i + count < Len(text) /\ text[i + 1] = text[i + count + 1]
  THEN RleCount(text, i, count + 1)
  ELSE count

\* one iteration of the outer while loop
RleEncodeStep(st) ==
  LET count == RleCount(st.text, st.i, 1)
      char == st.text[st.i + 1]
      segment == <<char>> \o DecStr(count)
      encoded == st.encoded \o segment
  IN  [st EXCEPT !.encoded = encoded,
                 !.steps = Append(@, [char |-> char, count |-> count, output |-> segment]),
                 !.animationSteps = Append(@, [index |-> st.i, length |-> count,
                                               outputChunk |-> segment,
                                               currentEncoded |-> encoded]),
                 !.i = st.i + count]

\* the locals of rle.encode at the top of the loop
RleEncodeStart(text) ==
  [text |-> text, encoded |-> <<>>, i |-> 0, steps |-> <<>>, animationSteps |-> <<>>]

\* the object rle.encode returns once the loop has ended
RleEncodeResult(st) ==
  [encoded |-> st.encoded, ratio |-> Ratio(Len(st.encoded), Len(st.text)),
   steps |-> st.steps, animationSteps |-> st.animationSteps,
   originalLength |-> Len(st.text), encodedLength |-> Len(st.encoded)]

\* what the code after the early return would return for "": the ratio is
\* 0 / 0
RleEncodeFallThrough ==
  [encoded |-> <<>>, ratio |-> Ratio(0, 0), steps |-> <<>>, animationSteps |-> <<>>]

\* the object rle.encode returns for a falsy text
RleEncodeEmpty ==
  [encoded |-> <<>>, ratio |-> RatioZero, steps |-> <<>>, animationSteps |-> <<>>]

(***************************************************************************)
(* RLE: rle.decode                                                         *)
(***************************************************************************)
\* A decimal integer of this many significant digits is above the largest
\* double, so parseInt gives Infinity.
InfinityDigits == 310

\* parseInt(ds, 10) of a non-empty string of digits
ParseInt10(ds) ==
  IF Len(StripZeros(ds)) >= InfinityDigits
  THEN [inf |-> TRUE, val |-> 0]
  ELSE [inf |-> FALSE, val |-> DecValue(ds)]

\* /([^0-9])([0-9]+)/ matches at 1-based position p
RleMatchAt(text, p) ==
  /\ p + 1 <= Len(text)
  /\ ~IsDigit(text[p])
  /\ IsDigit(text[p + 1])

\* RleDigitsEnd as it would be for the pattern ([^0-9])([0-9]): one digit
RleDigitsEndSingle(text, q) == q

\* the last position of the greedy [0-9]+ that starts at q
RleDigitsEnd(text, q) ==
  LET stops == {e \in q..Len(text) : e = Len(text) \/ ~IsDigit(text[e + 1])}
  IN  CHOOSE e \in stops : \A f \in stops : e <= f

\* regex.exec from lastIndex: the leftmost match at or after position from
\* (0 when there is none)
RleNextMatch(text, from) ==
  LET ps == {p \in from..Len(text) : RleMatchAt(text, p)}
  IN  IF ps = {} THEN 0 ELSE CHOOSE p \in ps : \A q \in ps : p <= q

\* the while loop of rle.decode; String.prototype.repeat throws a
\* RangeError for an infinite count
RECURSIVE RleDecodeLoop(_, _, _)
RleDecodeLoop(text, from, decoded) ==
  LET p == RleNextMatch(text, from)
  IN  IF p = 0 THEN Returned(decoded)
      ELSE LET e == RleDigitsEnd(text, p + 1)
               count == ParseInt10(SubSeq(text, p + 1, e))
           IN  IF count.inf THEN Thrown("RangeError")
               ELSE RleDecodeLoop(text, e + 1,
                                  decoded \o RepeatChar(text[p], count.val))

RleDecode(text) == RleDecodeLoop(text, 1, <<>>)

(***************************************************************************)
(* JavaScript values used by the Huffman codec                             *)
(*                                                                         *)
(* A value that may be null or undefined is a sequence of length 0 (null)  *)
(* or 1 (the value).  A plain object is the sequence of its own            *)
(* properties [key, val] in the order Object.keys lists them: the array    *)
(* index keys in ascending numeric order first, then the other keys in     *)
(* the order they were created.                                            *)
(***************************************************************************)
Null == <<>>
Some(v) == <<v>>

HighSurrogate == 55357
LowSurrogate == 56832

IsHigh(c) == c \in 55296..56319
IsLow(c) == c \in 56320..57343

\* the string iterator (for..of): the code points of text, a surrogate pair
\* being one code point of two units
RECURSIVE CodePoints(_)
CodePoints(text) ==
  IF text = <<>> THEN <<>>
  ELSE IF Len(text) >= 2 /\ IsHigh(text[1]) /\ IsLow(text[2])
       THEN <<SubSeq(text, 1, 2)>> \o CodePoints(SubSeq(text, 3, Len(text)))
       ELSE <<SubSeq(text, 1, 1)>> \o CodePoints(Tail(text))

\* a canonical array index ("0", "7", "10"); keys of ten digits and more do
\* not occur in the model
IsArrayIndex(key) ==
  /\ key # <<>>
  /\ Len(key) <= 9
  /\ \A k \in 1..Len(key) : IsDigit(key[k])
  /\ (Len(key) = 1 \/ key[1] # Char0)

ObjIndexOf(obj, key) ==
  LET ks == {k \in 1..Len(obj) : obj[k].key = key}
  IN  IF ks = {} THEN 0 ELSE CHOOSE k \in ks : TRUE

\* obj.hasOwnProperty(key)
ObjHas(obj, key) == ObjIndexOf(obj, key) # 0

\* obj[key] of an own property, undefined (Null) otherwise; the model's keys
\* are never names of Object.prototype
ObjGet(obj, key) ==
  IF ObjHas(obj, key) THEN Some(obj[ObjIndexOf(obj, key)].val) ELSE Null

\* obj[key] = val
ObjSet(obj, key, val) ==
  LET k == ObjIndexOf(obj, key)
      precedes(e) ==
        IF IsArrayIndex(key)
        THEN IsArrayIndex(e.key) /\ DecValue(e.key) < DecValue(key)
        ELSE TRUE
      n == Cardinality({j \in 1..Len(obj) : precedes(obj[j])})
  IN  IF k # 0 THEN [obj EXCEPT ![k].val = val]
      ELSE SubSeq(obj, 1, n) \o <<[key |-> key, val |-> val]>>
             \o SubSeq(obj, n + 1, Len(obj))

\* Object.keys(obj)
ObjKeys(obj) == [k \in 1..Len(obj) |-> obj[k].key]

(***************************************************************************)
(* JSON.stringify and JSON.parse of a code table                           *)
(***************************************************************************)
CharQuote == 34
CharBackslash == 92
CharColon == 58
CharLBrace == 123
CharRBrace == 125
CharLowerU == 117

HexDigit(d) == IF d < 10 THEN Char0 + d ELSE 97 + (d - 10)

\* \uXXXX, in lower-case hexadecimal
UnicodeEscape(c) ==
  <<CharBackslash, CharLowerU, HexDigit(c \div 4096), HexDigit((c \div 256) % 16),
    HexDigit((c \div 16) % 16), HexDigit(c % 16)>>

\* the short escapes of QuoteJSONString: \b \t \n \f \r \" \\
ShortEscapes ==
  {<<8, 98>>, <<9, 116>>, <<10, 110>>, <<12, 102>>, <<13, 114>>,
   <<CharQuote, CharQuote>>, <<CharBackslash, CharBackslash>>}

\* the characters of a JSON string literal for the code points cps
RECURSIVE QuoteCodePoints(_)
QuoteCodePoints(cps) ==
  IF cps = <<>> THEN <<>>
  ELSE LET cp == Head(cps)
           c == cp[1]
           out == IF Len(cp) = 2 THEN cp
                  ELSE IF \E e \in ShortEscapes : e[1] = c
                  THEN <<CharBackslash, (CHOOSE e \in ShortEscapes : e[1] = c)[2]>>
                  ELSE IF c < 32 \/ IsHigh(c) \/ IsLow(c) THEN UnicodeEscape(c)
                  ELSE cp
       IN  out \o QuoteCodePoints(Tail(cps))

JsonQuote(s) == <<CharQuote>> \o QuoteCodePoints(CodePoints(s)) \o <<CharQuote>>

RECURSIVE JsonMembers(_)
JsonMembers(obj) ==
  IF obj = <<>> THEN <<>>
  ELSE JsonQuote(obj[1].key) \o <<CharColon>> \o JsonQuote(obj[1].val)
         \o (IF Len(obj) > 1 THEN <<CharComma>> ELSE <<>>)
         \o JsonMembers(Tail(obj))

\* JSON.stringify of an object whose values are strings
JsonStringify(obj) == <<CharLBrace>> \o JsonMembers(obj) \o <<CharRBrace>>

HexValue(c) ==
  IF IsDigit(c) THEN c - Char0
  ELSE IF c \in 97..102 THEN c - 87
  ELSE IF c \in 65..70 THEN c - 55
  ELSE -1

\* A parse result: ok, the position after what was read, and the value.
ParseFail == [ok |-> FALSE, pos |-> 0, val |-> <<>>]
ParseOk(pos, val) == [ok |-> TRUE, pos |-> pos, val |-> val]

\* the characters of a string literal from position p (after the opening
\* quote) up to and including the closing quote
RECURSIVE JsonParseChars(_, _, _)
JsonParseChars(t, p, acc) ==
  IF p > Len(t) THEN ParseFail
  ELSE IF t[p] = CharQuote THEN ParseOk(p + 1, acc)
  ELSE IF t[p] < 32 THEN ParseFail
  ELSE IF t[p] # CharBackslash THEN JsonParseChars(t, p + 1, Append(acc, t[p]))
  ELSE IF p + 1 > Len(t) THEN ParseFail
  ELSE IF t[p + 1] = CharLowerU
       THEN IF p + 5 <= Len(t) /\ \A k \in 2..5 : HexValue(t[p + k]) >= 0
            THEN JsonParseChars(t, p + 6,
                   Append(acc, 4096 * HexValue(t[p + 2]) + 256 * HexValue(t[p + 3])
                                 + 16 * HexValue(t[p + 4]) + HexValue(t[p + 5])))
            ELSE ParseFail
  ELSE IF t[p + 1] = 47 THEN JsonParseChars(t, p + 2, Append(acc, 47))
  ELSE IF \E e \in ShortEscapes : e[2] = t[p + 1]
       THEN JsonParseChars(t, p + 2,
              Append(acc, (CHOOSE e \in ShortEscapes : e[2] = t[p + 1])[1]))
  ELSE ParseFail

JsonParseString(t, p) ==
  IF p <= Len(t) /\ t[p] = CharQuote THEN JsonParseChars(t, p + 1, <<>>)
  ELSE ParseFail

\* the members "key":"value",... from position p up to the closing brace
RECURSIVE JsonParseMembers(_, _, _)
JsonParseMembers(t, p, obj) ==
  LET key == JsonParseString(t, p)
  IN  IF ~key.ok \/ key.pos > Len(t) \/ t[key.pos] # CharColon THEN ParseFail
      ELSE LET val == JsonParseString(t, key.pos + 1)
               next == ObjSet(obj, key.val, val.val)
           IN  IF ~val.ok \/ val.pos > Len(t) THEN ParseFail
               ELSE IF t[val.pos] = CharRBrace THEN ParseOk(val.pos + 1, next)
               ELSE IF t[val.pos] = CharComma THEN JsonParseMembers(t, val.pos + 1, next)
               ELSE ParseFail

JsonNullText == <<110, 117, 108, 108>>

\* JSON.parse(t) for the texts of the model: an object of string members
\* without white space, the literal null, or a text that is no JSON at all.
\* kind is "object" (val the object), "null" or "SyntaxError".
JsonParse(t) ==
  IF t = JsonNullText THEN [kind |-> "null", val |-> <<>>]
  ELSE LET r == IF Len(t) >= 2 /\ t[1] = CharLBrace
                THEN IF t[2] = CharRBrace THEN ParseOk(3, <<>>)
                     ELSE JsonParseMembers(t, 2, <<>>)
                ELSE ParseFail
       IN  IF r.ok /\ r.pos = Len(t) + 1 THEN [kind |-> "object", val |-> r.val]
           ELSE [kind |-> "SyntaxError", val |-> <<>>]

(***************************************************************************)
(* Huffman: huffman.encode                                                 *)
(***************************************************************************)
BitsPerChar == 8

\* step 1, the frequency count over the code points of text
RECURSIVE HuffCount(_, _)
HuffCount(cps, freq) ==
  IF cps = <<>> THEN freq
  ELSE LET old == ObjGet(freq, Head(cps))
       IN  HuffCount(Tail(cps),
                     ObjSet(freq, Head(cps), (IF old = Null THEN 0 ELSE old[1]) + 1))

HuffFreq(text) == HuffCount(CodePoints(text), <<>>)

\* a leaf { char, freq, left: null, right: null }
HuffLeaf(char, n) == [char |-> Some(char), freq |-> n, left |-> Null, right |-> Null]

\* step 2, the queue of leaves in Object.keys(freq) order
HuffQueue(freq) ==
  [k \in 1..Len(freq) |-> HuffLeaf(ObjKeys(freq)[k], ObjGet(freq, ObjKeys(freq)[k])[1])]

\* Array.prototype.sort is stable: a node goes after every node that does
\* not compare greater; sign is 1 for (a, b) => a.freq - b.freq and -1 for
\* (a, b) => b.freq - a.freq
HuffInsert(sorted, node, sign) ==
  LET n == Cardinality({j \in 1..Len(sorted) :
                          \A i \in 1..j : sign * sorted[i].freq <= sign * node.freq})
  IN  SubSeq(sorted, 1, n) \o <<node>> \o SubSeq(sorted, n + 1, Len(sorted))

RECURSIVE HuffSort(_, _)
HuffSort(queue, sign) ==
  IF queue = <<>> THEN <<>>
  ELSE HuffInsert(HuffSort(SubSeq(queue, 1, Len(queue) - 1), sign),
                  queue[Len(queue)], sign)

\* the iteration without queue.sort: the first two nodes are merged
HuffMergeStepUnsorted(queue) ==
  LET left == queue[1]
      right == queue[2]
      newNode == [char |-> Null, freq |-> left.freq + right.freq,
                  left |-> Some(left), right |-> Some(right)]
  IN  Append(SubSeq(queue, 3, Len(queue)), newNode)

\* one iteration of while (queue.length > 1): sort, shift twice, push
HuffMergeStep(queue) ==
  LET sorted == HuffSort(queue, 1)
      left == sorted[1]
      right == sorted[2]
      newNode == [char |-> Null, freq |-> left.freq + right.freq,
                  left |-> Some(left), right |-> Some(right)]
  IN  Append(SubSeq(sorted, 3, Len(sorted)), newNode)

\* step 4, generateCodes(node, currentCode), writing into codes
RECURSIVE GenerateCodes(_, _, _)
GenerateCodes(node, currentCode, codes) ==
  IF node = Null THEN codes
  ELSE IF node[1].char # Null THEN ObjSet(codes, node[1].char[1], currentCode)
  ELSE GenerateCodes(node[1].right, Append(currentCode, Char0 + 1),
                     GenerateCodes(node[1].left, Append(currentCode, Char0), codes))

\* HuffCodes without the special case of a single leaf
HuffCodesPlain(root) == GenerateCodes(Some(root), <<>>, <<>>)

\* the code table of the tree root
HuffCodes(root) ==
  IF root.char # Null
  THEN GenerateCodes(Some(root), <<Char0>>, <<>>)
  ELSE GenerateCodes(Some(root), <<>>, <<>>)

\* "undefined", what string concatenation makes of an undefined value
UndefinedText == <<117, 110, 100, 101, 102, 105, 110, 101, 100>>

ToText(v) == IF v = Null THEN UndefinedText ELSE v[1]

\* step 0 of the trace: the dictionary is built
HuffFirstStep ==
  [index |-> -1, length |-> 0, outputChunk |-> Some(<<>>), currentEncoded |-> <<>>,
   lookupChar |-> Null, lookupCode |-> Null]

\* one iteration of the encoding loop, for (let i = 0; i < text.length; i++)
HuffEncodeStep(st) ==
  LET char == <<st.text[st.i + 1]>>
      code == ObjGet(st.codes, char)
      encoded == st.encoded \o ToText(code)
  IN  [st EXCEPT !.encoded = encoded,
                 !.animationSteps = Append(@, [index |-> st.i, length |-> 1,
                                               outputChunk |-> code,
                                               currentEncoded |-> encoded,
                                               lookupChar |-> Some(char),
                                               lookupCode |-> code]),
                 !.i = st.i + 1]

\* the object huffman.encode returns
HuffEncodeResult(st) ==
  [encoded |-> st.encoded,
   ratio |-> Ratio(Len(st.encoded), Len(st.text) * BitsPerChar),
   originalLength |-> Len(st.text) * BitsPerChar,
   encodedLength |-> Len(st.encoded),
   map |-> st.codes,
   freqTable |-> st.freqTable,
   serializedMap |-> JsonStringify(st.codes),
   animationSteps |-> st.animationSteps]

\* the object huffman.encode returns for a falsy text
HuffEncodeEmpty ==
  [encoded |-> <<>>, ratio |-> RatioZero, table |-> <<>>, tree |-> Null,
   animationSteps |-> <<>>]

(***************************************************************************)
(* Huffman: huffman.decode                                                 *)
(***************************************************************************)
\* the error texts huffman.decode returns
MissingAuxiliaryData ==
  <<24489, 20803, 12395, 12399, 36766, 26360, 24773, 22577, 12364, 24517, 35201,
    12391, 12377, 12290>>
AuxiliaryParseError ==
  <<36766, 26360, 12487, 12540, 12479, 12398, 35299, 26512, 12395, 22833, 25943,
    12375, 12414, 12375, 12383, 12290>>

\* An argument is a string, null or undefined.
StringArg(s) == [type |-> "string", s |-> s]
NullArg == [type |-> "null", s |-> <<>>]
UndefinedArg == [type |-> "undefined", s |-> <<>>]

\* !arg
Falsy(arg) == arg.type # "string" \/ arg.s = <<>>

\* Object.keys(codeMap).forEach(char => reverseMap[codeMap[char]] = char)
RECURSIVE HuffReverse(_, _)
HuffReverse(codeMap, reverseMap) ==
  IF codeMap = <<>> THEN reverseMap
  ELSE HuffReverse(Tail(codeMap), ObjSet(reverseMap, codeMap[1].val, codeMap[1].key))

\* if (reverseMap[currentCode]): an own property holding a non-empty string.
\* reverseMap also inherits the properties of Object.prototype ("toString",
\* "constructor", ...); no code read here, made of "0", "1" and the letters
\* of "undefined", is the name of one
HuffMatches(reverseMap, currentCode) ==
  /\ ObjHas(reverseMap, currentCode)
  /\ ObjGet(reverseMap, currentCode)[1] # <<>>

\* the loop without currentCode = "" after a match
RECURSIVE HuffDecodeLoopKeepsCode(_, _, _, _)
HuffDecodeLoopKeepsCode(cps, reverseMap, currentCode, decoded) ==
  IF cps = <<>> THEN decoded
  ELSE LET code == currentCode \o Head(cps)
       IN  IF HuffMatches(reverseMap, code)
           THEN HuffDecodeLoopKeepsCode(Tail(cps), reverseMap, code,
                                        decoded \o ObjGet(reverseMap, code)[1])
           ELSE HuffDecodeLoopKeepsCode(Tail(cps), reverseMap, code, decoded)

\* the for..of loop over the code points of encodedText
RECURSIVE HuffDecodeLoop(_, _, _, _)
HuffDecodeLoop(cps, reverseMap, currentCode, decoded) ==
  IF cps = <<>> THEN decoded
  ELSE LET code == currentCode \o Head(cps)
       IN  IF HuffMatches(reverseMap, code)
           THEN HuffDecodeLoop(Tail(cps), reverseMap, <<>>,
                               decoded \o ObjGet(reverseMap, code)[1])
           ELSE HuffDecodeLoop(Tail(cps), reverseMap, code, decoded)

\* the try block of huffman.decode.  JSON.parse(null) reads the text "null";
\* Object.keys(null) and for..of over null throw a TypeError, which the
\* catch turns into the same text as a SyntaxError
HuffDecodeBody(encodedText, codeMapJSON) ==
  LET parsed == JsonParse(IF codeMapJSON.type = "string" THEN codeMapJSON.s
                          ELSE JsonNullText)
  IN  IF parsed.kind # "object" \/ encodedText.type # "string"
      THEN Returned(AuxiliaryParseError)
      ELSE Returned(HuffDecodeLoop(CodePoints(encodedText.s),
                                   HuffReverse(parsed.val, <<>>), <<>>, <<>>))

\* huffman.decode with the guard if (!encodedText)
HuffDecodeBitsGuardOnly(encodedText, codeMapJSON) ==
  IF Falsy(encodedText) THEN Returned(MissingAuxiliaryData)
  ELSE HuffDecodeBody(encodedText, codeMapJSON)

\* huffman.decode with the guard if (!codeMapJSON)
HuffDecodeTableGuardOnly(encodedText, codeMapJSON) ==
  IF Falsy(codeMapJSON) THEN Returned(MissingAuxiliaryData)
  ELSE HuffDecodeBody(encodedText, codeMapJSON)

\* huffman.decode(encodedText, codeMapJSON)
HuffDecode(encodedText, codeMapJSON) ==
  IF Falsy(encodedText) \/ Falsy(codeMapJSON) THEN Returned(MissingAuxiliaryData)
  ELSE HuffDecodeBody(encodedText, codeMapJSON)

(***************************************************************************)
(* LZW: lzw.encode                                                         *)
(*                                                                         *)
(* The encoder's dict is a plain object keyed by strings.  It is modelled  *)
(* by the sequence added of the assignments dict[wc] = dictSize++ in the   *)
(* order they ran, [str, code], on top of the 256 seed entries.            *)
(***************************************************************************)
SeedSize == 256
BitsPerCode == 12

\* "__proto__": an assignment of a number to this key sets no own property
ProtoKey == <<95, 95, 112, 114, 111, 116, 111, 95, 95>>
\* "hasOwnProperty": an own property of this name shadows the method
HasOwnPropertyKey ==
  <<104, 97, 115, 79, 119, 110, 80, 114, 111, 112, 101, 114, 116, 121>>

\* the own properties the assignments created
LzwOwnAdded(added) == {k \in 1..Len(added) : added[k].str # ProtoKey}

\* dict.hasOwnProperty is still Object.prototype.hasOwnProperty
LzwCallable(added) == \A k \in 1..Len(added) : added[k].str # HasOwnPropertyKey

\* a lookup that knows the seed entries only
LzwHasOwnSeed(added, s) == Len(s) = 1 /\ s[1] < SeedSize

\* dict.hasOwnProperty(s)
LzwHasOwn(added, s) ==
  \/ Len(s) = 1 /\ s[1] < SeedSize
  \/ \E k \in LzwOwnAdded(added) : added[k].str = s

\* dict[s]: the code of an own key, undefined (Null) for the empty string
\* and for a single character outside the seed that was never added
LzwCode(added, s) ==
  IF Len(s) = 1 /\ s[1] < SeedSize THEN Some(s[1])
  ELSE IF \E k \in LzwOwnAdded(added) : added[k].str = s
       THEN Some(added[CHOOSE k \in LzwOwnAdded(added) : added[k].str = s].code)
       ELSE Null

\* String(v) of an array element inside join: undefined gives ""
CodeText(v) == IF v = Null THEN <<>> ELSE DecStr(v[1])

\* result.join(",")
RECURSIVE JoinCodes(_)
JoinCodes(result) ==
  IF result = <<>> THEN <<>>
  ELSE IF Len(result) = 1 THEN CodeText(result[1])
  ELSE CodeText(result[1]) \o <<CharComma>> \o JoinCodes(Tail(result))

\* the locals of lzw.encode before the loop
LzwEncodeStart(text) ==
  [text |-> text, i |-> 0, w |-> <<>>, result |-> <<>>, dictSize |-> SeedSize,
   added |-> <<>>, steps |-> <<>>, animationSteps |-> <<>>]

\* one iteration of for (let i = 0; i < text.length; i++), dict.hasOwnProperty
\* being callable
LzwEncodeStep(st) ==
  LET c == <<st.text[st.i + 1]>>
      wc == st.w \o c
  IN  IF LzwHasOwn(st.added, wc)
      THEN [st EXCEPT !.w = wc,
                      !.animationSteps = Append(@, [index |-> st.i, length |-> 1,
                                                    w |-> st.w, nextW |-> wc,
                                                    outputChunk |-> Null,
                                                    currentEncoded |-> Null,
                                                    dictAdd |-> Null,
                                                    isOutputStep |-> FALSE]),
                      !.i = st.i + 1]
      ELSE LET outputCode == LzwCode(st.added, st.w)
               result == Append(st.result, outputCode)
           IN  [st EXCEPT !.result = result,
                          !.steps = Append(@, [w |-> st.w, output |-> outputCode,
                                               add |-> wc,
                                               newCode |-> Some(st.dictSize)]),
                          !.animationSteps =
                             Append(@, [index |-> st.i, length |-> 1,
                                        w |-> st.w, nextW |-> c,
                                        outputChunk |->
                                          Some((IF outputCode = Null THEN UndefinedText
                                                ELSE DecStr(outputCode[1]))
                                                 \o <<CharComma>>),
                                        currentEncoded |-> Some(JoinCodes(result)),
                                        dictAdd |-> Some([str |-> wc, code |-> st.dictSize]),
                                        isOutputStep |-> TRUE]),
                          !.added = Append(@, [str |-> wc, code |-> st.dictSize]),
                          !.dictSize = st.dictSize + 1,
                          !.w = c,
                          !.i = st.i + 1]

\* "-", the add and newCode of the last record of steps
Dash == <<45>>

\* the end of lzw.encode without the final output of w
LzwEncodeNoFlush(st) == st

\* after the loop: if (w !== "") the code of w is the last output
LzwEncodeFlush(st) ==
  IF st.w = <<>> THEN st
  ELSE LET outputCode == LzwCode(st.added, st.w)
           result == Append(st.result, outputCode)
       IN  [st EXCEPT !.result = result,
                      !.steps = Append(@, [w |-> st.w, output |-> outputCode,
                                           add |-> Dash,
                                           newCode |-> StringArg(Dash)]),
                      !.animationSteps =
                         Append(@, [index |-> Len(st.text), length |-> 0,
                                    w |-> st.w, nextW |-> <<>>,
                                    outputChunk |-> Some(CodeText(outputCode)),
                                    currentEncoded |-> Some(JoinCodes(result)),
                                    dictAdd |-> Null,
                                    isOutputStep |-> TRUE])]

\* the object lzw.encode returns, from the locals after the flush
LzwEncodeResult(st) ==
  [encoded |-> JoinCodes(st.result),
   ratio |-> Ratio(Len(st.result) * BitsPerCode, Len(st.text) * BitsPerChar),
   steps |-> st.steps, animationSteps |-> st.animationSteps,
   originalLength |-> Len(st.text) * BitsPerChar,
   encodedLength |-> Len(st.result) * BitsPerCode,
   isBits |-> TRUE]

\* the object lzw.encode returns for a falsy text
LzwEncodeEmpty ==
  [encoded |-> <<>>, ratio |-> RatioZero, steps |-> <<>>, animationSteps |-> <<>>]

(***************************************************************************)
(* LZW: lzw.decode                                                         *)
(***************************************************************************)
LzwFormatError ==
  <<24418, 24335, 12456, 12521, 12540, 58, 32, 12459, 12531, 12510, 21306, 20999,
    12426, 12398, 25968, 20516, 65288, 20363, 58, 32, 54, 53, 44, 54, 54, 44, 50,
    53, 54, 65289, 12434, 20837, 21147, 12375, 12390, 12367, 12384, 12373, 12356>>
LzwInvalidCode ==
  <<24489, 20803, 12456, 12521, 12540, 58, 32, 28961, 21177, 12394, 36766, 26360,
    12467, 12540, 12489, 12364, 21547, 12414, 12428, 12390, 12356, 12414, 12377>>

\* text.split(",")
RECURSIVE SplitComma(_, _)
SplitComma(text, token) ==
  IF text = <<>> THEN <<token>>
  ELSE IF Head(text) = CharComma THEN <<token>> \o SplitComma(Tail(text), <<>>)
  ELSE SplitComma(Tail(text), Append(token, Head(text)))

\* Number(token) for the tokens of the model, which are made of decimal
\* digits and letters: the empty string is 0, a string of digits is its
\* value, anything else is NaN
NumberOf(token) ==
  IF \A k \in 1..Len(token) : IsDigit(token[k])
  THEN [nan |-> FALSE, val |-> DecValue(token)]
  ELSE [nan |-> TRUE, val |-> 0]

\* String.fromCharCode(n): the code unit n modulo 2^16
FromCharCode(n) == <<n % 65536>>

\* the decoder's dict[k] for a key k it has: a seed entry or an added one
LzwEntry(added, k) == IF k < SeedSize THEN FromCharCode(k) ELSE added[k - SeedSize + 1]

\* the locals of lzw.decode before the loop
LzwDecodeStart(compressed) ==
  [compressed |-> compressed, i |-> 1, w |-> FromCharCode(compressed[1]),
   result |-> FromCharCode(compressed[1]), dictSize |-> SeedSize, added |-> <<>>]

\* dict.hasOwnProperty(k) for a non-negative integer k
LzwKnown(st, k) == k < st.dictSize

\* the code read by the next iteration of for (let i = 1; i < compressed.length; i++)
LzwNextCode(st) == st.compressed[st.i + 1]

\* a decoder without the case of the code that is being registered
LzwRejectsUnknown(st) == ~LzwKnown(st, LzwNextCode(st))

\* the iteration returns the invalid-code error
LzwRejects(st) == ~LzwKnown(st, LzwNextCode(st)) /\ LzwNextCode(st) # st.dictSize

\* LzwDecodeStep registering w + w.charAt(0) for every code
LzwDecodeStepOwnFirst(st) ==
  LET k == LzwNextCode(st)
      entry == IF LzwKnown(st, k) THEN LzwEntry(st.added, k) ELSE st.w \o <<st.w[1]>>
  IN  [st EXCEPT !.result = st.result \o entry,
                 !.added = Append(@, st.w \o <<st.w[1]>>),
                 !.dictSize = st.dictSize + 1,
                 !.w = entry,
                 !.i = st.i + 1]

\* one iteration that does not return
LzwDecodeStep(st) ==
  LET k == LzwNextCode(st)
      entry == IF LzwKnown(st, k) THEN LzwEntry(st.added, k) ELSE st.w \o <<st.w[1]>>
  IN  [st EXCEPT !.result = st.result \o entry,
                 !.added = Append(@, st.w \o <<entry[1]>>),
                 !.dictSize = st.dictSize + 1,
                 !.w = entry,
                 !.i = st.i + 1]

(***************************************************************************)
(* Inputs of the calls                                                     *)
(***************************************************************************)
MaxRleLen == 5
MaxRleDecodeLen == 4
LongRun == 12
MaxHuffLen == 4
MaxBitsLen == 4
MaxLzwLen == 5
MaxLzwTokens == 3

RleAlphabet == {CharA, CharB, Char0 + 2}
RleDecodeAlphabet == {CharA, CharB, Char0, Char0 + 2}

RleTexts ==
  StringsUpTo(RleAlphabet, MaxRleLen)
    \cup {RepeatChar(CharA, LongRun), RepeatChar(CharA, LongRun) \o <<CharB>>}

\* strings of any shape, and "A999...9" whose count parses to Infinity
RleDecodeInputs ==
  StringsUpTo(RleDecodeAlphabet, MaxRleDecodeLen)
    \cup {<<CharA>> \o RepeatChar(Char9, InfinityDigits)}

\* letters, a digit, and the two halves of the surrogate pair of U+1F600
HuffAlphabet == {CharA, CharB, Char0 + 1, HighSurrogate, LowSurrogate}

\* "AAAAABBBCCCCC", the text the application starts with
DefaultText ==
  RepeatChar(CharA, 5) \o RepeatChar(CharB, 3) \o RepeatChar(CharC, 5)

\* "AB11CCCC": frequencies 1, 1, 2 and 4, a tree of depth 3
SkewedText ==
  <<CharA, CharB, Char0 + 1, Char0 + 1>> \o RepeatChar(CharC, 4)

HuffTexts == StringsUpTo(HuffAlphabet, MaxHuffLen) \cup {DefaultText, SkewedText}

Bit0 == <<Char0>>
Bit1 == <<Char0 + 1>>
Prop(key, val) == [key |-> key, val |-> val]

\* code tables handed to huffman.decode: well-formed ones, one with two
\* symbols on one code, one that is not prefix-free, one with an empty
\* symbol and one whose symbol is a whole sentence
HuffTableObjects ==
  {<<Prop(<<CharA>>, Bit0)>>,
   <<Prop(<<CharA>>, Bit0), Prop(<<CharB>>, Bit1)>>,
   <<Prop(<<CharA>>, Bit0), Prop(<<CharB>>, Bit1 \o Bit0), Prop(<<CharC>>, Bit1 \o Bit1)>>,
   <<Prop(<<CharA>>, Bit0), Prop(<<CharB>>, Bit0)>>,
   <<Prop(<<CharA>>, Bit0), Prop(<<CharB>>, Bit0 \o Bit1)>>,
   <<Prop(<<>>, Bit0), Prop(<<CharB>>, Bit1)>>,
   <<Prop(MissingAuxiliaryData, Bit0)>>}

\* the second argument of huffman.decode: absent, null, "", "{}", "{",
\* "null" and the serialized tables
HuffTableArgs ==
  {NullArg, UndefinedArg, StringArg(<<>>),
   StringArg(<<CharLBrace, CharRBrace>>), StringArg(<<CharLBrace>>),
   StringArg(JsonNullText)}
    \cup {StringArg(JsonStringify(obj)) : obj \in HuffTableObjects}

HuffBitArgs ==
  {NullArg} \cup {StringArg(b) : b \in StringsUpTo({Char0, Char0 + 1}, MaxBitsLen)}

\* "MISSISSIPPI"
Mississippi == <<77, 73, 83, 83, 73, 83, 83, 73, 80, 80, 73>>

\* the prefixes of key of length from..Len(key), one after the other, each
\* preceded by fill[k] where fill has an entry for its length k
RECURSIVE PrefixChain(_, _, _)
PrefixChain(key, from, fill) ==
  IF from > Len(key) THEN <<>>
  ELSE (IF from \in DOMAIN fill THEN fill[from] ELSE <<>>)
         \o SubSeq(key, 1, from) \o PrefixChain(key, from + 1, fill)

\* "hahashasO...hasOwnProperty" followed by "A": the encoder adds every
\* prefix of "hasOwnProperty" in turn, the last with one character to go
ShadowingText ==
  PrefixChain(HasOwnPropertyKey, 2, [k \in {13} |-> <<Char0>>]) \o <<CharA>>

\* "__0__p__pr...__proto_0__proto__" followed by "A__proto__A": the encoder
\* adds every prefix of "__proto__" in turn and meets "__proto__" twice
ProtoText ==
  PrefixChain(ProtoKey, 2, [k \in {3, 8, 9} |->
                              IF k = 8 THEN <<Char0 + 1>> ELSE <<Char0>>])
    \o <<CharA>> \o ProtoKey \o <<CharA>>

LzwAlphabet == {CharA, CharB}

LzwTexts ==
  StringsUpTo(LzwAlphabet, MaxLzwLen) \cup {Mississippi, ShadowingText, ProtoText}

\* tokens of the decoder's input: empty, not a number, known codes, the
\* first codes the decoder assigns, and a code far outside
LzwTokens ==
  {<<>>, <<CharA>>} \cup {DecStr(n) : n \in {CharA, CharB, SeedSize, SeedSize + 1, 300}}

RECURSIVE JoinTokens(_)
JoinTokens(tokens) ==
  IF Len(tokens) = 1 THEN tokens[1]
  ELSE tokens[1] \o <<CharComma>> \o JoinTokens(Tail(tokens))

LzwDecodeInputs ==
  {JoinTokens(ts) : ts \in StringsUpTo(LzwTokens, MaxLzwTokens) \ {<<>>}}

(***************************************************************************)
(* State                                                                   *)
(*                                                                         *)
(* rle, huff and lzw hold the call of each codec: pc is where the call     *)
(* is, st its locals, ret what it returned.  own tells that a decode call  *)
(* was given what the preceding encode call of the same text returned.     *)
(***************************************************************************)
IdleRle == [pc |-> "idle"]
IdleHuff == [pc |-> "idle"]
IdleLzw == [pc |-> "idle"]

(***************************************************************************)
(* The image mode of App                                                   *)
(*                                                                         *)
(* app holds the state of the App component.  The image tab uses grid, the *)
(* rows of the 8x8 picture, and imgResult, null or the object the last     *)
(* handleImageCompress stored.  src/app.js has the same handler, without   *)
(* animationSteps in imgResult.                                            *)
(***************************************************************************)
GridSize == 8

\* Array(8).fill().map(() => Array(8).fill(0))
ClearedGrid == [r \in 1..GridSize |-> [c \in 1..GridSize |-> 0]]

\* (r + c) % 2 with r and c counted from 0
CheckerGrid == [r \in 1..GridSize |-> [c \in 1..GridSize |-> (r + c) % 2]]

\* r < 4 ? 0 : 1 with r counted from 0
SplitGrid == [r \in 1..GridSize |-> [c \in 1..GridSize |-> IF r - 1 < 4 THEN 0 ELSE 1]]

\* the pixels <<row, col>> that are clicked: corners, and the ends and
\* starts of rows, which are neighbours in the flattened string
TogglePixels == {<<0, 0>>, <<0, 7>>, <<1, 0>>, <<3, 7>>, <<4, 0>>, <<7, 7>>}

\* togglePixel(row, col), on a copy of the grid
ToggledGrid(grid, row, col) ==
  [grid EXCEPT ![row + 1][col + 1] = IF @ = 1 THEN 0 ELSE 1]

\* the grid read column by column
FlatColumnMajor(grid) ==
  [k \in 1..GridSize * GridSize |->
     Char0 + grid[((k - 1) % GridSize) + 1][((k - 1) \div GridSize) + 1]]

\* grid.flat().join(""): the rows one after the other, each cell as the
\* digit String(cell)
Flat(grid) ==
  [k \in 1..Len(grid) * GridSize |->
     Char0 + grid[((k - 1) \div GridSize) + 1][((k - 1) % GridSize) + 1]]

\* rle.encode(text) as one call: the early return, or the loop run to its
\* end
RECURSIVE RleEncodeRun(_)
RleEncodeRun(st) ==
  IF st.i < Len(st.text) THEN RleEncodeRun(RleEncodeStep(st)) ELSE RleEncodeResult(st)

RleEncode(text) ==
  IF text = <<>> THEN RleEncodeEmpty ELSE RleEncodeRun(RleEncodeStart(text))

\* the object handleImageCompress stores
ImageResult(grid) ==
  LET flatStr == Flat(grid)
      res == RleEncode(flatStr)
      originalBits == Len(flatStr)
      compressedCost == Len(res.encoded) * 4
  IN  [originalStr |-> flatStr, encoded |-> res.encoded,
       originalSize |-> originalBits, compressedSize |-> compressedCost,
       ratio |-> Ratio(compressedCost, originalBits),
       animationSteps |-> res.animationSteps]

\* the state of App after it is mounted.  player is the state of the one
\* visualizer that is rendered, Visualizer on the text tab and
\* ImageVisualizer on the image tab, Null when none is.
\* huffmanDecodeArgs records the arguments of the call of huffman.decode
\* that the handler that ran last has made, Null when it made none.
InitialApp ==
  [activeTab |-> "text", algo |-> "rle", inputText |-> DefaultText,
   compressionResult |-> Null, decodeInput |-> <<>>, decodeResult |-> <<>>,
   compareData |-> <<>>, grid |-> ClearedGrid, imgResult |-> Null,
   player |-> Null, huffmanDecodeArgs |-> Null]

Init ==
  /\ rle = IdleRle
  /\ huff = IdleHuff
  /\ lzw = IdleLzw
  /\ app = InitialApp

\* no call is running: the codecs are synchronous, a call starts only
\* when the one before has returned
Quiescent ==
  /\ rle.pc \in {"idle", "encoded", "decoded"}
  /\ huff.pc \in {"idle", "encoded", "decoded"}
  /\ lzw.pc \in {"idle", "encoded", "decoded"}

(***************************************************************************)
(* RLE actions                                                             *)
(***************************************************************************)
\* rle.encode(text) is called
RleEncodeCall ==
  /\ Quiescent
  /\ \E text \in RleTexts :
       rle' = [pc |-> "called", op |-> "encode", text |-> text]
  /\ huff' = IdleHuff
  /\ lzw' = IdleLzw
  /\ UNCHANGED app

\* if (!text) return ...; otherwise the locals are set up
RleEncodeEnter ==
  /\ rle.pc = "called"
  /\ rle.op = "encode"
  /\ rle' = IF rle.text = <<>>
            THEN [pc |-> "encoded", text |-> rle.text, ret |-> RleEncodeEmpty]
            ELSE [pc |-> "encode", st |-> RleEncodeStart(rle.text)]
  /\ UNCHANGED <<huff, lzw>>
  /\ UNCHANGED app

\* one iteration of while (i < text.length)
RleEncodeLoop ==
  /\ rle.pc = "encode"
  /\ rle.st.i < Len(rle.st.text)
  /\ rle' = [rle EXCEPT !.st = RleEncodeStep(rle.st)]
  /\ UNCHANGED <<huff, lzw>>
  /\ UNCHANGED app

\* the loop has ended: rle.encode returns
RleEncodeReturn ==
  /\ rle.pc = "encode"
  /\ rle.st.i >= Len(rle.st.text)
  /\ rle' = [pc |-> "encoded", text |-> rle.st.text, ret |-> RleEncodeResult(rle.st)]
  /\ UNCHANGED <<huff, lzw>>
  /\ UNCHANGED app

\* rle.decode is called on the encoded string the last rle.encode returned
RleDecodeEncoded ==
  /\ rle.pc = "encoded"
  /\ rle' = [pc |-> "called", op |-> "decode", own |-> TRUE, text |-> rle.text,
             input |-> rle.ret.encoded]
  /\ UNCHANGED <<huff, lzw>>
  /\ UNCHANGED app

\* rle.decode is called on any string
RleDecodeCall ==
  /\ Quiescent
  /\ \E input \in RleDecodeInputs :
       rle' = [pc |-> "called", op |-> "decode", own |-> FALSE, text |-> <<>>,
               input |-> input]
  /\ huff' = IdleHuff
  /\ lzw' = IdleLzw
  /\ UNCHANGED app

\* the body of rle.decode
RleDecodeRun ==
  /\ rle.pc = "called"
  /\ rle.op = "decode"
  /\ rle' = [pc |-> "decoded", own |-> rle.own, text |-> rle.text,
             input |-> rle.input, ret |-> RleDecode(rle.input)]
  /\ UNCHANGED <<huff, lzw>>
  /\ UNCHANGED app

(***************************************************************************)
(* Huffman actions                                                         *)
(***************************************************************************)
\* the locals of huffman.encode before the merge loop
HuffEncodeStart(text) ==
  LET queue == HuffQueue(HuffFreq(text))
  IN  [text |-> text, freq |-> HuffFreq(text), queue |-> queue,
       freqTable |-> HuffSort(queue, -1), codes |-> <<>>, encoded |-> <<>>,
       i |-> 0, animationSteps |-> <<>>]

\* huffman.encode(text) is called
HuffEncodeCall ==
  /\ Quiescent
  /\ \E text \in HuffTexts :
       huff' = [pc |-> "called", op |-> "encode", text |-> text]
  /\ rle' = IdleRle
  /\ lzw' = IdleLzw
  /\ UNCHANGED app

\* if (!text) return ...; otherwise steps 1 and 2
HuffEncodeEnter ==
  /\ huff.pc = "called"
  /\ huff.op = "encode"
  /\ huff' = IF huff.text = <<>>
             THEN [pc |-> "encoded", text |-> huff.text, ret |-> HuffEncodeEmpty]
             ELSE [pc |-> "merge", st |-> HuffEncodeStart(huff.text)]
  /\ UNCHANGED <<rle, lzw>>
  /\ UNCHANGED app

\* one iteration of while (queue.length > 1)
HuffMergeLoop ==
  /\ huff.pc = "merge"
  /\ Len(huff.st.queue) > 1
  /\ huff' = [huff EXCEPT !.st.queue = HuffMergeStep(@)]
  /\ UNCHANGED <<rle, lzw>>
  /\ UNCHANGED app

\* the tree is built: the codes are generated and the trace is started
HuffAssignCodes ==
  /\ huff.pc = "merge"
  /\ Len(huff.st.queue) <= 1
  /\ huff' = [huff EXCEPT !.pc = "encode",
                          !.st.codes = HuffCodes(huff.st.queue[1]),
                          !.st.animationSteps = <<HuffFirstStep>>]
  /\ UNCHANGED <<rle, lzw>>
  /\ UNCHANGED app

\* one iteration of the encoding loop
HuffEncodeLoop ==
  /\ huff.pc = "encode"
  /\ huff.st.i < Len(huff.st.text)
  /\ huff' = [huff EXCEPT !.st = HuffEncodeStep(huff.st)]
  /\ UNCHANGED <<rle, lzw>>
  /\ UNCHANGED app

\* huffman.encode returns
HuffEncodeReturn ==
  /\ huff.pc = "encode"
  /\ huff.st.i >= Len(huff.st.text)
  /\ huff' = [pc |-> "encoded", text |-> huff.st.text, ret |-> HuffEncodeResult(huff.st)]
  /\ UNCHANGED <<rle, lzw>>
  /\ UNCHANGED app

\* huffman.decode is called with the encoded bits and the serialized map
\* of the last huffman.encode (the early return has no serializedMap)
HuffDecodeEncoded ==
  /\ huff.pc = "encoded"
  /\ huff' = [pc |-> "called", op |-> "decode", own |-> TRUE, text |-> huff.text,
              bits |-> StringArg(huff.ret.encoded),
              table |-> IF huff.text = <<>> THEN UndefinedArg
                        ELSE StringArg(huff.ret.serializedMap)]
  /\ UNCHANGED <<rle, lzw>>
  /\ UNCHANGED app

\* huffman.decode is called with any arguments
HuffDecodeCall ==
  /\ Quiescent
  /\ \E bits \in HuffBitArgs, table \in HuffTableArgs :
       huff' = [pc |-> "called", op |-> "decode", own |-> FALSE, text |-> <<>>,
                bits |-> bits, table |-> table]
  /\ rle' = IdleRle
  /\ lzw' = IdleLzw
  /\ UNCHANGED app

\* the body of huffman.decode
HuffDecodeRun ==
  /\ huff.pc = "called"
  /\ huff.op = "decode"
  /\ huff' = [pc |-> "decoded", own |-> huff.own, text |-> huff.text,
              bits |-> huff.bits, table |-> huff.table,
              ret |-> HuffDecode(huff.bits, huff.table)]
  /\ UNCHANGED <<rle, lzw>>
  /\ UNCHANGED app

(***************************************************************************)
(* LZW actions                                                             *)
(***************************************************************************)
\* the decoder's locals of a call that returned before setting them
LzwDecodeNone ==
  [compressed |-> <<>>, i |-> 0, w |-> <<>>, result |-> <<>>, dictSize |-> SeedSize,
   added |-> <<>>]

\* lzw.encode(text) is called
LzwEncodeCall ==
  /\ Quiescent
  /\ \E text \in LzwTexts :
       lzw' = [pc |-> "called", op |-> "encode", text |-> text]
  /\ rle' = IdleRle
  /\ huff' = IdleHuff
  /\ UNCHANGED app

\* if (!text) return ...; otherwise the dictionary and the locals are set up
LzwEncodeEnter ==
  /\ lzw.pc = "called"
  /\ lzw.op = "encode"
  /\ lzw' = IF lzw.text = <<>>
            THEN [pc |-> "encoded", outcome |-> "returned",
                  st |-> LzwEncodeStart(lzw.text), ret |-> LzwEncodeEmpty]
            ELSE [pc |-> "encode", st |-> LzwEncodeStart(lzw.text)]
  /\ UNCHANGED <<rle, huff>>
  /\ UNCHANGED app

\* one iteration of the encoding loop; calling dict.hasOwnProperty throws a
\* TypeError once an own property has taken its name
LzwEncodeLoop ==
  /\ lzw.pc = "encode"
  /\ lzw.st.i < Len(lzw.st.text)
  /\ lzw' = IF LzwCallable(lzw.st.added)
            THEN [lzw EXCEPT !.st = LzwEncodeStep(lzw.st)]
            ELSE [pc |-> "encoded", outcome |-> "threw", st |-> lzw.st,
                  ret |-> LzwEncodeEmpty]
  /\ UNCHANGED <<rle, huff>>
  /\ UNCHANGED app

\* the loop has ended: the flush, then lzw.encode returns
LzwEncodeReturn ==
  /\ lzw.pc = "encode"
  /\ lzw.st.i >= Len(lzw.st.text)
  /\ lzw' = [pc |-> "encoded", outcome |-> "returned", st |-> LzwEncodeFlush(lzw.st),
             ret |-> LzwEncodeResult(LzwEncodeFlush(lzw.st))]
  /\ UNCHANGED <<rle, huff>>
  /\ UNCHANGED app

\* lzw.decode is called on the encoded string the last lzw.encode returned;
\* enc keeps the encoder's locals for comparison
LzwDecodeEncoded ==
  /\ lzw.pc = "encoded"
  /\ lzw.outcome = "returned"
  /\ lzw' = [pc |-> "called", op |-> "decode", own |-> TRUE, enc |-> lzw.st,
             input |-> lzw.ret.encoded]
  /\ UNCHANGED <<rle, huff>>
  /\ UNCHANGED app

\* lzw.decode is called on any string
LzwDecodeCall ==
  /\ Quiescent
  /\ \E input \in LzwDecodeInputs :
       lzw' = [pc |-> "called", op |-> "decode", own |-> FALSE,
               enc |-> LzwEncodeStart(<<>>), input |-> input]
  /\ rle' = IdleRle
  /\ huff' = IdleHuff
  /\ UNCHANGED app

\* text.split(",").map(Number)
LzwCompressed(text) ==
  [k \in 1..Len(SplitComma(text, <<>>)) |-> NumberOf(SplitComma(text, <<>>)[k])]

\* lzw.decode up to its loop: the two early returns, or the locals
LzwDecodeEnter ==
  /\ lzw.pc = "called"
  /\ lzw.op = "decode"
  /\ LET compressed == LzwCompressed(lzw.input)
         early(s) == [pc |-> "decoded", own |-> lzw.own, enc |-> lzw.enc,
                      input |-> lzw.input, st |-> LzwDecodeNone, ret |-> Returned(s)]
     IN  lzw' = IF lzw.input = <<>> THEN early(<<>>)
                ELSE IF \E k \in 1..Len(compressed) : compressed[k].nan
                THEN early(LzwFormatError)
                ELSE [pc |-> "decode", own |-> lzw.own, enc |-> lzw.enc,
                      input |-> lzw.input,
                      st |-> LzwDecodeStart([k \in 1..Len(compressed) |->
                                               compressed[k].val])]
  /\ UNCHANGED <<rle, huff>>
  /\ UNCHANGED app

\* what lzw.decode returns from inside or after its loop
LzwDecodeDone(s) ==
  [pc |-> "decoded", own |-> lzw.own, enc |-> lzw.enc, input |-> lzw.input,
   st |-> lzw.st, ret |-> Returned(s)]

\* one iteration of the decoding loop, which returns the invalid-code
\* error for a code that is neither known nor the next one
LzwDecodeLoop ==
  /\ lzw.pc = "decode"
  /\ lzw.st.i < Len(lzw.st.compressed)
  /\ lzw' = IF LzwRejects(lzw.st)
            THEN LzwDecodeDone(LzwInvalidCode)
            ELSE [lzw EXCEPT !.st = LzwDecodeStep(lzw.st)]
  /\ UNCHANGED <<rle, huff>>
  /\ UNCHANGED app

\* the loop has ended: lzw.decode returns result
LzwDecodeReturn ==
  /\ lzw.pc = "decode"
  /\ lzw.st.i >= Len(lzw.st.compressed)
  /\ lzw' = LzwDecodeDone(lzw.st.result)
  /\ UNCHANGED <<rle, huff>>
  /\ UNCHANGED app

(***************************************************************************)
(* Visualizer: the output panel.  The fields of a trace step are Null when *)
(* the step has no such field or holds null.                               *)
(***************************************************************************)
\* "xyz", searched for when the step has no output chunk
Xyz == <<120, 121, 122>>

\* s.lastIndexOf(sub): the last 0-based position where sub starts, -1 if none
LastIndexOf(s, sub) ==
  LET at == {p \in 0..Len(s) - Len(sub) : SubSeq(s, p + 1, p + Len(sub)) = sub}
  IN  IF at = {} THEN -1 ELSE CHOOSE p \in at : \A q \in at : q <= p

\* s.slice(0, end): a negative end counts from the end of s
SliceTo(s, end) ==
  LET e == IF end < 0 THEN (IF Len(s) + end < 0 THEN 0 ELSE Len(s) + end)
           ELSE IF end > Len(s) THEN Len(s) ELSE end
  IN  SubSeq(s, 1, e)

\* null, undefined and "" are falsy
Truthy(v) == v # Null /\ v[1] # <<>>

\* the text of the two spans of the output panel: the confirmed part, then
\* the highlighted chunk
OutputPanel(currentEncoded, outputChunk) ==
  (IF Truthy(currentEncoded)
   THEN SliceTo(currentEncoded[1],
                LastIndexOf(currentEncoded[1],
                            IF Truthy(outputChunk) THEN outputChunk[1] ELSE Xyz))
   ELSE <<>>)
    \o (IF Truthy(outputChunk) THEN outputChunk[1] ELSE <<>>)

(***************************************************************************)
(* The codecs as single calls, the way the handlers of App call them       *)
(***************************************************************************)
\* while (queue.length > 1) run to its end
RECURSIVE HuffMergeRun(_)
HuffMergeRun(queue) ==
  IF Len(queue) > 1 THEN HuffMergeRun(HuffMergeStep(queue)) ELSE queue

\* the encoding loop run to its end, and the return
RECURSIVE HuffEncodeRun(_)
HuffEncodeRun(st) ==
  IF st.i < Len(st.text) THEN HuffEncodeRun(HuffEncodeStep(st)) ELSE HuffEncodeResult(st)

\* huffman.encode(text)
HuffEncode(text) ==
  IF text = <<>> THEN HuffEncodeEmpty
  ELSE LET st == HuffEncodeStart(text)
           queue == HuffMergeRun(st.queue)
       IN  HuffEncodeRun([st EXCEPT !.queue = queue,
                                    !.codes = HuffCodes(queue[1]),
                                    !.animationSteps = <<HuffFirstStep>>])

\* the loop of lzw.encode run to its end, or to the TypeError
RECURSIVE LzwEncodeRun(_)
LzwEncodeRun(st) ==
  IF st.i >= Len(st.text) THEN Returned(LzwEncodeResult(LzwEncodeFlush(st)))
  ELSE IF LzwCallable(st.added) THEN LzwEncodeRun(LzwEncodeStep(st))
  ELSE Thrown("TypeError")

\* lzw.encode(text)
LzwEncode(text) ==
  IF text = <<>> THEN Returned(LzwEncodeEmpty) ELSE LzwEncodeRun(LzwEncodeStart(text))

\* the loop of lzw.decode run to its end, or to the invalid-code error
RECURSIVE LzwDecodeRun(_)
LzwDecodeRun(st) ==
  IF st.i >= Len(st.compressed) THEN st.result
  ELSE IF LzwRejects(st) THEN LzwInvalidCode
  ELSE LzwDecodeRun(LzwDecodeStep(st))

\* lzw.decode(text)
LzwDecode(text) ==
  LET compressed == LzwCompressed(text)
  IN  IF text = <<>> THEN <<>>
      ELSE IF \E k \in 1..Len(compressed) : compressed[k].nan THEN LzwFormatError
      ELSE LzwDecodeRun(LzwDecodeStart([k \in 1..Len(compressed) |->
                                          compressed[k].val]))

(***************************************************************************)
(* Visualizer and ImageVisualizer: the step player.  The two components    *)
(* hold the same state and the same code; they differ in the speed they    *)
(* start with.  length is steps.length of the result that is rendered,     *)
(* timer is Null or the steps.length the interval callback has captured,   *)
(* pending names the effects that have not run yet for the last render:    *)
(* "reset" the effect on [inputText, algo, result] (and the timer effect   *)
(* after it), "timer" the effect on [isPlaying, speed, steps.length].      *)
(***************************************************************************)
\* two of the positions of the speed slider, in ms
Speeds == {500, 1000}

\* the component as it is mounted; its effects have not run yet
MountedPlayer(tab, length) ==
  [length |-> length, currentStepIndex |-> 0, isPlaying |-> FALSE,
   speed |-> IF tab = "text" THEN 1000 ELSE 500, timer |-> Null,
   pending |-> "reset"]

\* the render after a handler has stored the new object res as the result:
\* the component is mounted, or keeps its state and gets the new prop
WithResult(a, res) ==
  LET length == Len(res.animationSteps)
  IN  [a EXCEPT !.player =
         IF @ = Null THEN Some(MountedPlayer(a.activeTab, length))
         ELSE Some([@[1] EXCEPT !.length = length, !.pending = "reset"])]

\* React runs the effects of a render before it handles the next click or
\* key
Settled == IF app.player = Null THEN TRUE ELSE app.player[1].pending = "none"

\* a click on one of the player's controls can be handled
Playable == app.player # Null /\ app.player[1].pending = "none"

\* the updater of the interval callback, with the steps.length it captured
TickAlways(prev, length) == prev + 1

TickIndex(prev, length) == IF prev >= length - 1 THEN prev ELSE prev + 1

\* an interval callback that never calls setIsPlaying(false)
TickNeverStops(prev, length) == FALSE

\* the updater calls setIsPlaying(false)
TickStops(prev, length) == prev >= length - 1

\* the interval fires; it can do so before the effects of the last render
\* have cleared it
Tick ==
  /\ app.player # Null
  /\ app.player[1].timer # Null
  /\ LET p == app.player[1]
         length == p.timer[1]
         stops == TickStops(p.currentStepIndex, length)
     IN  app' = [app EXCEPT !.player =
                   Some([p EXCEPT !.currentStepIndex = TickIndex(@, length),
                                  !.isPlaying = IF stops THEN FALSE ELSE @,
                                  !.pending = IF stops /\ p.isPlaying /\ @ = "none"
                                              THEN "timer" ELSE @])]
  /\ UNCHANGED <<rle, huff, lzw>>

\* the effects of the last render run
PlayerEffects ==
  /\ app.player # Null
  /\ app.player[1].pending # "none"
  /\ LET p == app.player[1]
     IN  app' = [app EXCEPT !.player =
                   IF p.pending = "reset"
                   THEN Some([p EXCEPT !.currentStepIndex = 0, !.isPlaying = FALSE,
                                       !.timer = Null, !.pending = "none"])
                   ELSE Some([p EXCEPT !.timer = IF p.isPlaying THEN Some(p.length)
                                                 ELSE Null,
                                       !.pending = "none"])]
  /\ UNCHANGED <<rle, huff, lzw>>

\* setCurrentStepIndex by one of the four buttons
SetCurrentStepIndex(index) ==
  /\ app' = [app EXCEPT !.player = Some([@[1] EXCEPT !.currentStepIndex = index])]
  /\ UNCHANGED <<rle, huff, lzw>>

PlayerFirst ==
  /\ Playable
  /\ app.player[1].currentStepIndex # 0
  /\ SetCurrentStepIndex(0)

PlayerPrevious ==
  /\ Playable
  /\ app.player[1].currentStepIndex # 0
  /\ SetCurrentStepIndex(IF app.player[1].currentStepIndex - 1 < 0 THEN 0
                         ELSE app.player[1].currentStepIndex - 1)

PlayerNext ==
  /\ Playable
  /\ app.player[1].currentStepIndex # app.player[1].length - 1
  /\ SetCurrentStepIndex(IF app.player[1].currentStepIndex + 1 > app.player[1].length - 1
                         THEN app.player[1].length - 1
                         ELSE app.player[1].currentStepIndex + 1)

PlayerLast ==
  /\ Playable
  /\ app.player[1].currentStepIndex # app.player[1].length - 1
  /\ SetCurrentStepIndex(app.player[1].length - 1)

\* the play / pause button
PlayerToggle ==
  /\ Playable
  /\ app' = [app EXCEPT !.player = Some([@[1] EXCEPT !.isPlaying = ~@,
                                                     !.pending = "timer"])]
  /\ UNCHANGED <<rle, huff, lzw>>

\* the speed slider is moved
PlayerSetSpeed ==
  /\ Playable
  /\ \E speed \in Speeds \ {app.player[1].speed} :
       app' = [app EXCEPT !.player = Some([@[1] EXCEPT !.speed = speed,
                                                       !.pending = "timer"])]
  /\ UNCHANGED <<rle, huff, lzw>>

\* one of the two tab buttons: the content of the other tab is unmounted
\* and this tab's visualizer is mounted if this tab has a result
SetActiveTab ==
  /\ Settled
  /\ \E tab \in {"text", "image"} \ {app.activeTab} :
       LET result == IF tab = "text" THEN app.compressionResult ELSE app.imgResult
       IN  app' = [app EXCEPT !.activeTab = tab,
                              !.player = IF result = Null THEN Null
                                         ELSE Some(MountedPlayer(tab,
                                                     Len(result[1].animationSteps)))]
  /\ UNCHANGED <<rle, huff, lzw>>

(***************************************************************************)
(* App, text tab                                                           *)
(***************************************************************************)
Algos == {"rle", "huffman", "lzw"}

\* what is typed or set by the two example buttons: "", "AAAAABBBCCCCC",
\* "MISSISSIPPI", "AAAA" and the one character U+1F600
AppTexts ==
  {<<>>, DefaultText, Mississippi, RepeatChar(CharA, 4), <<HighSurrogate, LowSurrogate>>}

\* what is typed into the textarea: "", "01", "A3" and "65,256", and for
\* RLE also "A999...9", whose count parses to Infinity
AppDecodeInputs(algo) ==
  {<<>>, <<Char0, Char0 + 1>>, <<CharA, Char0 + 3>>,
   DecStr(65) \o <<CharComma>> \o DecStr(256)}
    \cup (IF algo = "rle" THEN {<<CharA>> \o RepeatChar(Char9, InfinityDigits)}
          ELSE {})

\* the text handleDecompress shows when it has no code table
NeedTableError ==
  <<12456, 12521, 12540, 58, 32, 12495, 12501, 12510, 12531, 31526, 21495, 21270,
    12398, 24489, 20803, 12395, 12399, 36766, 26360, 12487, 12540, 12479, 12364,
    24517, 35201, 12391, 12377, 12290, 20808, 12395, 12300, 22311, 32302, 12301,
    12434, 34892, 12387, 12390, 12367, 12384, 12373, 12356, 12290>>

\* the effect on [inputText, algo] without setCompressionResult(null)
TextEffectKeepsResult(a) ==
  [a EXCEPT !.decodeInput = <<>>, !.decodeResult = <<>>, !.compareData = <<>>]

\* the effect on [inputText, algo]; without a result Visualizer is not
\* rendered
TextEffect(a) ==
  [a EXCEPT !.compressionResult = Null, !.decodeInput = <<>>,
            !.decodeResult = <<>>, !.compareData = <<>>, !.player = Null]

\* setInputText by the input field or an example button; the same text
\* again changes no state and runs no effect
SetInputText ==
  /\ app.activeTab = "text"
  /\ Settled
  /\ \E text \in AppTexts \ {app.inputText} :
       app' = TextEffect([app EXCEPT !.inputText = text, !.huffmanDecodeArgs = Null])
  /\ UNCHANGED <<rle, huff, lzw>>

\* setAlgo by the select
SetAlgo ==
  /\ app.activeTab = "text"
  /\ Settled
  /\ \E algo \in Algos \ {app.algo} :
       app' = TextEffect([app EXCEPT !.algo = algo, !.huffmanDecodeArgs = Null])
  /\ UNCHANGED <<rle, huff, lzw>>

\* setDecodeInput by the textarea
SetDecodeInput ==
  /\ app.activeTab = "text"
  /\ Settled
  /\ \E input \in AppDecodeInputs(app.algo) :
       app' = [app EXCEPT !.decodeInput = input, !.huffmanDecodeArgs = Null]
  /\ UNCHANGED <<rle, huff, lzw>>

\* the encoder handleCompress calls for algo
CompressCall(algo, text) ==
  IF algo = "rle" THEN Returned(RleEncode(text))
  ELSE IF algo = "huffman" THEN Returned(HuffEncode(text))
  ELSE LzwEncode(text)

\* handleCompress; when the encoder throws no state is set
HandleCompress ==
  /\ app.activeTab = "text"
  /\ Settled
  /\ app' = IF app.inputText = <<>> THEN [app EXCEPT !.huffmanDecodeArgs = Null]
            ELSE LET call == CompressCall(app.algo, app.inputText)
                     res == call.val
                 IN  IF call.kind = "throw" THEN [app EXCEPT !.huffmanDecodeArgs = Null]
                     ELSE WithResult([app EXCEPT !.compressionResult = Some(res),
                                                 !.decodeInput = res.encoded,
                                                 !.decodeResult = <<>>,
                                                 !.huffmanDecodeArgs = Null], res)
  /\ UNCHANGED <<rle, huff, lzw>>

\* compressionResult && compressionResult.serializedMap
HasSerializedMap(compressionResult) ==
  IF compressionResult = Null THEN FALSE
  ELSE IF "serializedMap" \notin DOMAIN compressionResult[1] THEN FALSE
  ELSE compressionResult[1].serializedMap # <<>>

\* handleDecompress; when the decoder throws no state is set
HandleDecompress ==
  /\ app.activeTab = "text"
  /\ Settled
  /\ app' =
       IF app.decodeInput = <<>> THEN [app EXCEPT !.huffmanDecodeArgs = Null]
       ELSE IF app.algo = "rle"
       THEN LET res == RleDecode(app.decodeInput)
            IN  IF res.kind = "throw" THEN [app EXCEPT !.huffmanDecodeArgs = Null]
                ELSE [app EXCEPT !.decodeResult = res.val, !.huffmanDecodeArgs = Null]
       ELSE IF app.algo = "huffman"
       THEN IF HasSerializedMap(app.compressionResult)
            THEN LET codeMapJSON == app.compressionResult[1].serializedMap
                     res == HuffDecode(StringArg(app.decodeInput), StringArg(codeMapJSON))
                 IN  [app EXCEPT !.decodeResult = res.val,
                                 !.huffmanDecodeArgs =
                                    Some([encodedText |-> app.decodeInput,
                                          codeMapJSON |-> codeMapJSON])]
            ELSE [app EXCEPT !.decodeResult = NeedTableError,
                             !.huffmanDecodeArgs = Null]
       ELSE [app EXCEPT !.decodeResult = LzwDecode(app.decodeInput),
                        !.huffmanDecodeArgs = Null]
  /\ UNCHANGED <<rle, huff, lzw>>

\* handleCompare: the values of the four bars; when lzw.encode throws no
\* state is set
HandleCompare ==
  /\ app.activeTab = "text"
  /\ Settled
  /\ app' =
       IF app.inputText = <<>> THEN [app EXCEPT !.huffmanDecodeArgs = Null]
       ELSE LET rleRes == RleEncode(app.inputText)
                huffRes == HuffEncode(app.inputText)
                lzwCall == LzwEncode(app.inputText)
            IN  IF lzwCall.kind = "throw" THEN [app EXCEPT !.huffmanDecodeArgs = Null]
                ELSE [app EXCEPT !.compareData =
                                    <<[value |-> Len(app.inputText) * 8],
                                      [value |-> rleRes.encodedLength * 8],
                                      [value |-> huffRes.encodedLength],
                                      [value |-> lzwCall.val.encodedLength]>>,
                                 !.huffmanDecodeArgs = Null]
  /\ UNCHANGED <<rle, huff, lzw>>

(***************************************************************************)
(* App, image tab                                                          *)
(***************************************************************************)
\* setGrid(newGrid), then the effect on [grid]: setImgResult(null)
SetGrid(newGrid) ==
  /\ app.activeTab = "image"
  /\ Settled
  /\ app' = [app EXCEPT !.grid = newGrid, !.imgResult = Null, !.player = Null]
  /\ UNCHANGED <<rle, huff, lzw>>

\* a pixel of the editor is clicked
TogglePixel ==
  \E px \in TogglePixels : SetGrid(ToggledGrid(app.grid, px[1], px[2]))

\* the three preset buttons
GridClear == SetGrid(ClearedGrid)

GridCheckerboard == SetGrid(CheckerGrid)

GridSplit == SetGrid(SplitGrid)

\* handleImageCompress
HandleImageCompress ==
  /\ app.activeTab = "image"
  /\ Settled
  /\ app' = WithResult([app EXCEPT !.imgResult = Some(ImageResult(app.grid))],
                       ImageResult(app.grid))
  /\ UNCHANGED <<rle, huff, lzw>>

(***************************************************************************)
(* Specifications                                                          *)
(***************************************************************************)
NextRle ==
  \/ RleEncodeCall
  \/ RleEncodeEnter
  \/ RleEncodeLoop
  \/ RleEncodeReturn
  \/ RleDecodeEncoded
  \/ RleDecodeCall
  \/ RleDecodeRun

NextHuff ==
  \/ HuffEncodeCall
  \/ HuffEncodeEnter
  \/ HuffMergeLoop
  \/ HuffAssignCodes
  \/ HuffEncodeLoop
  \/ HuffEncodeReturn
  \/ HuffDecodeEncoded
  \/ HuffDecodeCall
  \/ HuffDecodeRun

NextLzw ==
  \/ LzwEncodeCall
  \/ LzwEncodeEnter
  \/ LzwEncodeLoop
  \/ LzwEncodeReturn
  \/ LzwDecodeEncoded
  \/ LzwDecodeCall
  \/ LzwDecodeEnter
  \/ LzwDecodeLoop
  \/ LzwDecodeReturn

\* the three decoders alone, on any input
NextDecode ==
  \/ RleDecodeCall
  \/ RleDecodeRun
  \/ HuffDecodeCall
  \/ HuffDecodeRun
  \/ LzwDecodeCall
  \/ LzwDecodeEnter
  \/ LzwDecodeLoop
  \/ LzwDecodeReturn

\* the image tab of App
NextImage ==
  \/ SetActiveTab
  \/ PlayerEffects
  \/ TogglePixel
  \/ GridClear
  \/ GridCheckerboard
  \/ GridSplit
  \/ HandleImageCompress

\* the text tab of App
NextApp ==
  \/ SetInputText
  \/ SetAlgo
  \/ SetDecodeInput
  \/ HandleCompress
  \/ HandleDecompress
  \/ HandleCompare
  \/ PlayerEffects

\* what the user does on the two tabs to get a result and to play it
UserAction ==
  \/ SetActiveTab
  \/ SetInputText
  \/ SetAlgo
  \/ HandleCompress
  \/ GridClear
  \/ GridCheckerboard
  \/ GridSplit
  \/ HandleImageCompress
  \/ PlayerFirst
  \/ PlayerPrevious
  \/ PlayerNext
  \/ PlayerLast
  \/ PlayerToggle
  \/ PlayerSetSpeed

\* the step player of the two visualizers
NextPlayer == UserAction \/ Tick \/ PlayerEffects

\* playback is on
Playing == IF app.player = Null THEN FALSE ELSE app.player[1].isPlaying

\* the step player with a user who does nothing while playback is on
NextAutoplay == (~Playing /\ UserAction) \/ Tick \/ PlayerEffects

\* the three codecs of CompressionLogic
NextCodecs == NextRle \/ NextHuff \/ NextLzw

Next == NextCodecs \/ NextImage \/ NextApp \/ NextPlayer

SpecRle == Init /\ [][NextRle]_vars
SpecHuff == Init /\ [][NextHuff]_vars
SpecLzw == Init /\ [][NextLzw]_vars
SpecDecode == Init /\ [][NextDecode]_vars
SpecImage == Init /\ [][NextImage]_vars
SpecCodecs == Init /\ [][NextCodecs]_vars
SpecApp == Init /\ [][NextApp]_vars
SpecPlayer == Init /\ [][NextPlayer]_vars
\* setInterval calls back again and again until clearInterval, and React
\* runs the effects of every render
SpecAutoplay ==
  Init /\ [][NextAutoplay]_vars /\ WF_vars(Tick) /\ WF_vars(PlayerEffects)
Spec == Init /\ [][Next]_vars

(***************************************************************************)
(* Properties                                                              *)
(***************************************************************************)
NoDigits(s) == \A k \in 1..Len(s) : ~IsDigit(s[k])

IsPrefix(a, b) == Len(a) <= Len(b) /\ SubSeq(b, 1, Len(a)) = a

\* C1: RLE round trip.  For every text without decimal digits, rle.decode
\* of what rle.encode returned for it is that text.
C1_RleRoundTrip ==
  (rle.pc = "decoded" /\ rle.own /\ NoDigits(rle.text))
    => rle.ret = Returned(rle.text)

\* a text with a run of ten or more equal symbols has been encoded and
\* decoded again
C1_Witness ==
  /\ rle.pc = "decoded"
  /\ rle.own
  /\ NoDigits(rle.text)
  /\ Len(rle.text) > LongRun
  /\ \E k \in 1..Len(rle.input) - 1 : IsDigit(rle.input[k]) /\ IsDigit(rle.input[k + 1])

\* C2: Huffman round trip.  For every non-empty text, huffman.decode of the
\* encoded bits and the serialized map of one huffman.encode call is the
\* text.
C2_HuffRoundTrip ==
  (huff.pc = "decoded" /\ huff.own /\ huff.text # <<>>)
    => huff.ret = Returned(huff.text)

\* the code points of text are single code units: no surrogate pair
NoPairs(text) == \A k \in 1..Len(CodePoints(text)) : Len(CodePoints(text)[k]) = 1

\* the round trip of the texts without a surrogate pair
HuffRoundTripOfUnits ==
  (huff.pc = "decoded" /\ huff.own /\ huff.text # <<>> /\ NoPairs(huff.text))
    => huff.ret = Returned(huff.text)

InSeedRange(text) == \A k \in 1..Len(text) : text[k] < SeedSize

\* C3: LZW round trip.  For every non-empty text over the code points
\* 0..255, lzw.encode returns and lzw.decode of its encoded string is the
\* text.
C3_LzwRoundTrip ==
  /\ (lzw.pc = "encoded" /\ InSeedRange(lzw.st.text)) => lzw.outcome = "returned"
  /\ (lzw.pc = "decoded" /\ lzw.own /\ lzw.enc.text # <<>> /\ InSeedRange(lzw.enc.text))
       => lzw.ret = Returned(lzw.enc.text)

\* the round trip of the texts for which lzw.encode returns
LzwRoundTripOfReturned ==
  (lzw.pc = "decoded" /\ lzw.own /\ lzw.enc.text # <<>> /\ InSeedRange(lzw.enc.text))
    => lzw.ret = Returned(lzw.enc.text)

\* C4: Huffman prefix-freeness.  In the code table huffman.encode returns
\* for a non-empty text, every code point of the text has one entry, every
\* code is non-empty, and no code is a prefix of the code of another symbol.
C4_PrefixFree ==
  (huff.pc = "encoded" /\ huff.text # <<>>)
    => LET map == huff.ret.map
       IN  /\ \A k \in 1..Len(CodePoints(huff.text)) :
                ObjHas(map, CodePoints(huff.text)[k])
           /\ \A j \in 1..Len(map) : map[j].val # <<>>
           /\ \A j, k \in 1..Len(map) :
                j # k => map[j].key # map[k].key /\ ~IsPrefix(map[j].val, map[k].val)

\* a table of three symbols or more, with codes of different lengths
C4_Witness ==
  /\ huff.pc = "encoded"
  /\ huff.text # <<>>
  /\ Len(huff.ret.map) >= 3
  /\ \E j, k \in 1..Len(huff.ret.map) : Len(huff.ret.map[j].val) < Len(huff.ret.map[k].val)

\* C5: LZW lockstep.  While lzw.decode processes what lzw.encode returned,
\* the entries it has registered are, code by code and in the same order,
\* the first entries the encoder registered; when it returns it has
\* registered all of them.
C5_Lockstep ==
  (lzw.pc \in {"decode", "decoded"} /\ lzw.own)
    => /\ Len(lzw.st.added) <= Len(lzw.enc.added)
       /\ lzw.st.dictSize = SeedSize + Len(lzw.st.added)
       /\ \A k \in 1..Len(lzw.st.added) :
            /\ lzw.enc.added[k].str = lzw.st.added[k]
            /\ lzw.enc.added[k].code = SeedSize + k - 1
       /\ lzw.pc = "decoded" => Len(lzw.st.added) = Len(lzw.enc.added)

\* the decoder has finished an encoder output in which a code was read
\* before the decoder had registered it
C5_Witness ==
  /\ lzw.pc = "decoded"
  /\ lzw.own
  /\ Len(lzw.st.added) >= 3
  /\ \E k \in 2..Len(lzw.st.compressed) : lzw.st.compressed[k] = SeedSize + k - 2

\* C6: huffman.decode without a code table.  With the second argument
\* null, undefined or the empty string, every call returns the
\* MissingAuxiliaryData text, as a value.
C6_MissingTable ==
  (huff.pc = "decoded" /\ Falsy(huff.table))
    => huff.ret = Returned(MissingAuxiliaryData)

\* decode("0101", null) has returned
C6_Witness ==
  /\ huff.pc = "decoded"
  /\ huff.table = NullArg
  /\ huff.bits = StringArg(<<Char0, Char0 + 1, Char0, Char0 + 1>>)

\* the serialized table parses to an object without entries
EmptyTable(arg) ==
  /\ ~Falsy(arg)
  /\ JsonParse(arg.s).kind = "object"
  /\ JsonParse(arg.s).val = <<>>

\* C7 as claimed: with an empty bit string, or a code table that has no
\* entries, huffman.decode returns the "dictionary required" error.
C7_RequiresEntries ==
  (huff.pc = "decoded"
     /\ (Falsy(huff.bits) \/ Falsy(huff.table) \/ EmptyTable(huff.table)))
    => huff.ret = Returned(MissingAuxiliaryData)

\* the bit string is a non-empty string of "0" and "1"
IsBits(arg) ==
  /\ ~Falsy(arg)
  /\ \A k \in 1..Len(arg.s) : arg.s[k] \in {Char0, Char0 + 1}

\* C7 as amended: huffman.decode returns the "dictionary required" error
\* whenever the bit string is empty or the serialized table is null,
\* undefined or the empty string; a serialized table that parses to an
\* object without entries is accepted, and a non-empty string of 0s and 1s
\* then decodes to the empty string.
C7_RequiresArguments ==
  huff.pc = "decoded"
    => /\ (Falsy(huff.bits) \/ Falsy(huff.table))
            => huff.ret = Returned(MissingAuxiliaryData)
       /\ (IsBits(huff.bits) /\ EmptyTable(huff.table))
            => huff.ret = Returned(<<>>)

\* bits were given together with the serialized table "{}"
C7_Witness ==
  /\ huff.pc = "decoded"
  /\ huff.bits = StringArg(<<Char0, Char0 + 1>>)
  /\ huff.table = StringArg(<<CharLBrace, CharRBrace>>)
  /\ huff.ret = Returned(<<>>)

\* a token that is no integer: empty, or with a character that is no digit
NotInteger(token) == token = <<>> \/ \E k \in 1..Len(token) : ~IsDigit(token[k])

\* C8: LZW format error.  For a non-empty input with a comma-separated
\* token that is no integer, lzw.decode returns the format error.
C8_FormatError ==
  (lzw.pc = "decoded" /\ lzw.input # <<>>
     /\ \E k \in 1..Len(SplitComma(lzw.input, <<>>)) :
          NotInteger(SplitComma(lzw.input, <<>>)[k]))
    => lzw.ret = Returned(LzwFormatError)

\* the code at position k is neither a key of the dictionary built by the
\* codes before it nor the next assignable code
InvalidAt(compressed, k) ==
  compressed[k] > SeedSize + (IF k = 1 THEN 0 ELSE k - 2)

\* C9: LZW invalid code.  Whenever the code sequence holds, at any position
\* (the first included), a code that is neither known nor the next
\* assignable one, lzw.decode returns the invalid-code error and nothing
\* of the partial output.
C9_InvalidCode ==
  (lzw.pc = "decoded"
     /\ \E k \in 1..Len(lzw.st.compressed) : InvalidAt(lzw.st.compressed, k))
    => lzw.ret = Returned(LzwInvalidCode)

\* the decoders' error results
ErrorTexts == {MissingAuxiliaryData, AuxiliaryParseError, LzwFormatError, LzwInvalidCode}

\* huffman.decode returned from its loop
HuffDecodeSucceeded ==
  /\ huff.pc = "decoded"
  /\ ~Falsy(huff.bits)
  /\ ~Falsy(huff.table)
  /\ JsonParse(huff.table.s).kind = "object"

\* lzw.decode returned from one of its two successful returns
LzwDecodeSucceeded ==
  /\ lzw.pc = "decoded"
  /\ \/ lzw.input = <<>>
     \/ lzw.st.compressed # <<>> /\ lzw.st.i >= Len(lzw.st.compressed)

\* C10: error propagation.  No decoder throws, and no successful decode
\* returns a value equal to an error result.
C10_ErrorPropagation ==
  /\ rle.pc = "decoded" => rle.ret.kind = "value" /\ rle.ret.val \notin ErrorTexts
  /\ huff.pc = "decoded" => huff.ret.kind = "value"
  /\ lzw.pc = "decoded" => lzw.ret.kind = "value"
  /\ HuffDecodeSucceeded => huff.ret.val \notin ErrorTexts
  /\ LzwDecodeSucceeded => lzw.ret.val \notin ErrorTexts


\* the table the second argument of huffman.decode parses to
ParsedTable(arg) == JsonParse(arg.s).val

\* the argument parses to a table whose codes are non-empty strings of "0"
\* and "1", none a prefix of another
PrefixFreeTable(arg) ==
  /\ ~Falsy(arg)
  /\ JsonParse(arg.s).kind = "object"
  /\ \A j \in 1..Len(ParsedTable(arg)) : IsBits(StringArg(ParsedTable(arg)[j].val))
  /\ \A j, k \in 1..Len(ParsedTable(arg)) :
       j # k => ~IsPrefix(ParsedTable(arg)[j].val, ParsedTable(arg)[k].val)

\* no symbol of the table is the empty string
NamedSymbols(table) == \A j \in 1..Len(table) : table[j].key # <<>>

\* the codes, and the symbols, of the entries idxs of the table, in a row
RECURSIVE CodesOf(_, _)
CodesOf(table, idxs) ==
  IF idxs = <<>> THEN <<>> ELSE table[Head(idxs)].val \o CodesOf(table, Tail(idxs))

RECURSIVE SymbolsOf(_, _)
SymbolsOf(table, idxs) ==
  IF idxs = <<>> THEN <<>> ELSE table[Head(idxs)].key \o SymbolsOf(table, Tail(idxs))

\* the proper prefixes of the codes of the table
ProperPrefixes(table) ==
  UNION {{SubSeq(table[j].val, 1, n) : n \in 0..Len(table[j].val) - 1} :
           j \in 1..Len(table)}

\* the ways to read bits as the codes of entries followed by a proper
\* prefix of a code
RECURSIVE CodeSplits(_, _)
CodeSplits(table, bits) ==
  (IF bits \in ProperPrefixes(table) THEN {<<>>} ELSE {})
    \cup UNION {{<<j>> \o rest :
                  rest \in CodeSplits(table, SubSeq(bits, Len(table[j].val) + 1, Len(bits)))} :
               j \in {k \in 1..Len(table) : IsPrefix(table[k].val, bits)}}

\* C11 as claimed: for a prefix-free table, a concatenation e of codes and
\* a proper prefix p of a code, huffman.decode(e ++ p, table) is
\* huffman.decode(e, table).
C11_LeftoverBits ==
  (huff.pc = "decoded" /\ PrefixFreeTable(huff.table) /\ huff.bits.type = "string")
    => \A idxs \in CodeSplits(ParsedTable(huff.table), huff.bits.s) :
         huff.ret = HuffDecode(StringArg(CodesOf(ParsedTable(huff.table), idxs)),
                               huff.table)

\* C11 as amended: for a prefix-free table of non-empty symbols and a
\* non-empty bit string made of the codes of symbols followed by a proper
\* prefix of a code, huffman.decode returns those symbols in a row: one
\* symbol per code matched, the trailing bits dropped, no error.
C11_LeftoverDropped ==
  (huff.pc = "decoded" /\ PrefixFreeTable(huff.table) /\ IsBits(huff.bits)
     /\ NamedSymbols(ParsedTable(huff.table)))
    => \A idxs \in CodeSplits(ParsedTable(huff.table), huff.bits.s) :
         huff.ret = Returned(SymbolsOf(ParsedTable(huff.table), idxs))

\* decode("0101", {A: "0", B: "10", C: "11"}) has returned "AB", the last
\* bit dropped
C11_Witness ==
  /\ huff.pc = "decoded"
  /\ PrefixFreeTable(huff.table)
  /\ Len(ParsedTable(huff.table)) = 3
  /\ huff.bits = StringArg(<<Char0, Char0 + 1, Char0, Char0 + 1>>)
  /\ huff.ret = Returned(<<CharA, CharB>>)


\* the length of the longest run of digits that follows position p
DigitRun(text, p) ==
  CHOOSE n \in 0..Len(text) - p :
    /\ \A k \in 1..n : IsDigit(text[p + k])
    /\ (p + n = Len(text) \/ ~IsDigit(text[p + n + 1]))

\* what the positions p..Len(text) contribute: at each non-digit that a
\* digit follows, the non-digit repeated by the number its digits spell
RECURSIVE RleExpansion(_, _)
RleExpansion(text, p) ==
  IF p > Len(text) THEN <<>>
  ELSE IF ~IsDigit(text[p]) /\ DigitRun(text, p) > 0
       THEN RepeatChar(text[p], DecValue(SubSeq(text, p + 1, p + DigitRun(text, p))))
              \o RleExpansion(text, p + 1)
       ELSE RleExpansion(text, p + 1)

\* C12: rle.decode is permissive.  For every input rle.decode returns, and
\* what it returns is, match by match from left to right, the symbol
\* repeated by its count; everything outside a match contributes nothing.
C12_RleDecodeMatches ==
  rle.pc = "decoded"
    => /\ rle.ret.kind = "value"
       /\ rle.ret.val = RleExpansion(rle.input, 1)

\* the same for the inputs whose counts have fewer digits than the
\* numbers that parse to Infinity
RleDecodeOfFinite ==
  (rle.pc = "decoded" /\ Len(rle.input) <= InfinityDigits)
    => rle.ret = Returned(RleExpansion(rle.input, 1))


\* C13: RLE on the empty input.  rle.encode("") returns encoded "", ratio 0
\* and empty steps and animationSteps.
C13_RleEmpty ==
  (rle.pc = "encoded" /\ rle.text = <<>>)
    => /\ rle.ret.encoded = <<>>
       /\ rle.ret.ratio = RatioZero
       /\ rle.ret.steps = <<>>
       /\ rle.ret.animationSteps = <<>>

\* rle.encode("") has returned
C13_Witness ==
  /\ rle.pc = "encoded"
  /\ rle.text = <<>>
  /\ DOMAIN rle.ret = {"encoded", "ratio", "steps", "animationSteps"}


\* the text is one symbol (code point), once or several times
OneSymbol(text) ==
  /\ text # <<>>
  /\ \A k \in 1..Len(CodePoints(text)) : CodePoints(text)[k] = CodePoints(text)[1]

\* C14: Huffman single-symbol case.  For a text of n >= 1 copies of one
\* symbol, huffman.encode gives the symbol the code "0" and returns "0"
\* repeated n times.
C14_SingleSymbol ==
  (huff.pc = "encoded" /\ OneSymbol(huff.text))
    => /\ huff.ret.map = <<Prop(CodePoints(huff.text)[1], Bit0)>>
       /\ huff.ret.encoded = RepeatChar(Char0, Len(CodePoints(huff.text)))

\* the same for a symbol that is one code unit
SingleSymbolOfUnits ==
  (huff.pc = "encoded" /\ OneSymbol(huff.text) /\ NoPairs(huff.text))
    => /\ huff.ret.map = <<Prop(CodePoints(huff.text)[1], Bit0)>>
       /\ huff.ret.encoded = RepeatChar(Char0, Len(CodePoints(huff.text)))


\* "AAAA"
FourAs == RepeatChar(CharA, 4)

\* C15: LZW known trace.  lzw.encode("AAAA") emits the codes 65, 256, 65:
\* "AA" is registered under 256 at the moment the first code is emitted
\* and the "A" that remains is the last code.
C15_KnownTrace ==
  /\ (lzw.pc = "encode" /\ lzw.st.text = FourAs)
       => IF lzw.st.result = <<>> THEN lzw.st.added = <<>>
          ELSE lzw.st.added[1] = [str |-> <<CharA, CharA>>, code |-> SeedSize]
  /\ (lzw.pc = "encoded" /\ lzw.st.text = FourAs)
       => /\ lzw.outcome = "returned"
          /\ lzw.st.result = <<Some(CharA), Some(SeedSize), Some(CharA)>>
          /\ lzw.ret.encoded = DecStr(CharA) \o <<CharComma>> \o DecStr(SeedSize)
                                  \o <<CharComma>> \o DecStr(CharA)
          /\ lzw.ret.steps[Len(lzw.ret.steps)].w = <<CharA>>

\* lzw.encode("AAAA") has returned
C15_Witness ==
  /\ lzw.pc = "encoded"
  /\ lzw.st.text = FourAs
  /\ Len(lzw.st.result) = 3


\* the fraction r is the number a / b * 100
IsPercentOf(r, a, b) == r.den # 0 /\ r.num * b = a * 100 * r.den

NoAdjacentEqual(text) == \A k \in 1..Len(text) - 1 : text[k] # text[k + 1]

\* C16: RLE ratio.  For a non-empty text rle.encode reports
\* originalLength = len(text), encodedLength = len(encoded) and
\* ratio = len(encoded) / len(text) * 100; the ratio of "A" is 200, and a
\* text without two adjacent equal symbols is encoded to twice its length.
C16_RleRatio ==
  (rle.pc = "encoded" /\ rle.text # <<>>)
    => /\ rle.ret.originalLength = Len(rle.text)
       /\ rle.ret.encodedLength = Len(rle.ret.encoded)
       /\ IsPercentOf(rle.ret.ratio, Len(rle.ret.encoded), Len(rle.text))
       /\ rle.text = <<CharA>> => IsPercentOf(rle.ret.ratio, 2, 1)
       /\ NoAdjacentEqual(rle.text) => Len(rle.ret.encoded) = 2 * Len(rle.text)

\* rle.encode("ABA") has returned six characters, ratio 200
C16_Witness ==
  /\ rle.pc = "encoded"
  /\ rle.text = <<CharA, CharB, CharA>>
  /\ Len(rle.ret.encoded) = 6
  /\ IsPercentOf(rle.ret.ratio, 2, 1)


\* how often the symbol occurs among the code points of text
Occurrences(text, symbol) ==
  Cardinality({k \in 1..Len(CodePoints(text)) : CodePoints(text)[k] = symbol})

\* the sum, over the entries of the code table, of frequency times code
\* length
RECURSIVE WeightedLength(_, _)
WeightedLength(text, map) ==
  IF map = <<>> THEN 0
  ELSE Occurrences(text, map[1].key) * Len(map[1].val) + WeightedLength(text, Tail(map))

\* the Huffman half of C17
HuffBitAccounting ==
  /\ huff.ret.originalLength = Len(huff.text) * 8
  /\ huff.ret.encodedLength = Len(huff.ret.encoded)
  /\ huff.ret.encodedLength = WeightedLength(huff.text, huff.ret.map)

\* the LZW half of C17
LzwBitAccounting ==
  /\ lzw.ret.originalLength = Len(lzw.st.text) * 8
  /\ lzw.ret.encodedLength = 12 * Len(lzw.st.result)
  /\ Len(SplitComma(lzw.ret.encoded, <<>>)) = Len(lzw.st.result)

\* C17: bit accounting.  For every non-empty text huffman.encode and
\* lzw.encode report originalLength = len(text) * 8; Huffman's
\* encodedLength is the length of the encoded bit string, the sum over the
\* symbols of frequency times code length, and LZW's is 12 times the
\* number of codes it emitted.
C17_BitAccounting ==
  /\ (huff.pc = "encoded" /\ huff.text # <<>>) => HuffBitAccounting
  /\ (lzw.pc = "encoded" /\ lzw.st.text # <<>>)
       => lzw.outcome = "returned" /\ LzwBitAccounting

\* the same for the texts without a surrogate pair and the calls of
\* lzw.encode that return
BitAccountingOfReturned ==
  /\ (huff.pc = "encoded" /\ huff.text # <<>> /\ NoPairs(huff.text)) => HuffBitAccounting
  /\ (lzw.pc = "encoded" /\ lzw.st.text # <<>> /\ lzw.outcome = "returned")
       => LzwBitAccounting


\* C18: Huffman code lengths follow frequency.  In the table huffman.encode
\* returns for a non-empty text, a symbol that occurs strictly more often
\* than another has a code that is no longer.
C18_LengthsFollowFrequency ==
  (huff.pc = "encoded" /\ huff.text # <<>>)
    => \A j, k \in 1..Len(huff.ret.map) :
         Occurrences(huff.text, huff.ret.map[j].key)
             > Occurrences(huff.text, huff.ret.map[k].key)
           => Len(huff.ret.map[j].val) <= Len(huff.ret.map[k].val)

\* a table of four symbols with codes of one, two and three bits, the
\* most frequent symbol on the shortest
C18_Witness ==
  /\ huff.pc = "encoded"
  /\ huff.text = SkewedText
  /\ Len(huff.ret.map) = 4
  /\ \E j, k \in 1..Len(huff.ret.map) :
       /\ Occurrences(huff.text, huff.ret.map[j].key)
            > Occurrences(huff.text, huff.ret.map[k].key)
       /\ Len(huff.ret.map[j].val) = 1
       /\ Len(huff.ret.map[k].val) = 3


\* the lengths of the steps of a trace, added up
RECURSIVE TotalLength(_)
TotalLength(steps) ==
  IF steps = <<>> THEN 0 ELSE steps[1].length + TotalLength(Tail(steps))

\* the output chunks of the steps of a trace, in a row
RECURSIVE ChunksOf(_)
ChunksOf(steps) ==
  IF steps = <<>> THEN <<>> ELSE steps[1].outputChunk \o ChunksOf(Tail(steps))

\* the steps cut text into its maximal runs of one symbol, from left to
\* right, and write each as the symbol followed by the length of the run
IsRunLengthTrace(text, steps) ==
  /\ steps # <<>>
  /\ steps[1].index = 0
  /\ \A k \in 1..Len(steps) :
       /\ steps[k].length >= 1
       /\ \A d \in 0..steps[k].length - 1 :
            text[steps[k].index + d + 1] = text[steps[k].index + 1]
       /\ steps[k].outputChunk = <<text[steps[k].index + 1]>> \o DecStr(steps[k].length)
       /\ IF k < Len(steps)
          THEN /\ steps[k + 1].index = steps[k].index + steps[k].length
               /\ text[steps[k + 1].index + 1] # text[steps[k].index + 1]
          ELSE steps[k].index + steps[k].length = Len(text)

\* C20: image mode.  What handleImageCompress stores is the grid flattened
\* row by row, cell (r, c) at position 8 * r + c of a string of 64 symbols,
\* and its run-length encoding: the runs of the trace are the maximal runs
\* of that string, their lengths add up to 64, and encoded is their
\* chunks in a row.
C20_ImageMode ==
  app.imgResult # Null
    => LET res == app.imgResult[1]
       IN  /\ Len(res.originalStr) = 64
           /\ \A r, c \in 0..7 :
                res.originalStr[8 * r + c + 1] = Char0 + app.grid[r + 1][c + 1]
           /\ IsRunLengthTrace(res.originalStr, res.animationSteps)
           /\ TotalLength(res.animationSteps) = 64
           /\ res.encoded = ChunksOf(res.animationSteps)

\* the bottom half black, two pixels clicked at the end of a row and the
\* start of the next: compressed into four runs, the second across the
\* two rows
C20_Witness ==
  /\ app.imgResult # Null
  /\ app.grid[1][8] = 1
  /\ app.grid[2][1] = 1
  /\ app.grid[8][1] = 1
  /\ Len(app.imgResult[1].animationSteps) = 4
  /\ app.imgResult[1].animationSteps[2].length = 2


\* the records of the trace that register an entry, in order
RECURSIVE Registering(_)
Registering(animationSteps) ==
  IF animationSteps = <<>> THEN <<>>
  ELSE (IF animationSteps[1].dictAdd # Null THEN <<animationSteps[1]>> ELSE <<>>)
         \o Registering(Tail(animationSteps))

\* the state of the encoder's dictionary after the registrations added
LzwDictionaryGrows(st) ==
  /\ st.dictSize = SeedSize + Len(st.added)
  /\ Cardinality(LzwOwnAdded(st.added)) = Len(st.added)
  /\ \A k \in 1..Len(st.added) :
       /\ st.added[k].code = SeedSize + k - 1
       /\ Len(st.added[k].str) >= 2
       /\ \A j \in 1..k - 1 : st.added[j].str # st.added[k].str
  /\ Len(Registering(st.animationSteps)) = Len(st.added)
  /\ \A k \in 1..Len(st.added) :
       LET step == Registering(st.animationSteps)[k]
       IN  /\ step.dictAdd = Some(st.added[k])
           /\ st.added[k].str = step.w \o <<st.text[step.index + 1]>>
           /\ st.result[k] = LzwCode(SubSeq(st.added, 1, k - 1), step.w)
           /\ st.result[k] # Null

\* C21: LZW encoder dictionary invariant.  At every step of lzw.encode on
\* a text over 0..255 the dictionary has grown by one key with every
\* registration, no seed entry was written, the new entries have the codes
\* 256, 257, ... in order, no sequence was registered twice and each entry
\* is w + c for the prefix w just emitted and the symbol c that did not
\* extend it.
C21_DictionaryInvariant ==
  (lzw.pc \in {"encode", "encoded"} /\ InSeedRange(lzw.st.text))
    => LzwDictionaryGrows(lzw.st)

\* the same for the runs in which "__proto__" is never a new sequence
DictionaryInvariantOfOwnKeys ==
  (lzw.pc \in {"encode", "encoded"} /\ InSeedRange(lzw.st.text)
     /\ \A k \in 1..Len(lzw.st.added) : lzw.st.added[k].str # ProtoKey)
    => LzwDictionaryGrows(lzw.st)


\* C22 as claimed: when lzw.encode has returned, the number of entries
\* added beyond the 256 seeds is the number of emitted codes.
C22_OnePerOutput ==
  (lzw.pc = "encoded" /\ lzw.outcome = "returned" /\ InSeedRange(lzw.st.text))
    => Len(lzw.st.added) = Len(lzw.st.result)

\* C22 as amended: every code emitted inside the loop of lzw.encode comes
\* with exactly one registration under the next code; the output after the
\* loop emits the code of the remaining w and registers nothing, so when
\* lzw.encode returns for a non-empty text the registrations are one fewer
\* than the emitted codes.
C22_OnePerLoopOutput ==
  /\ lzw.pc = "encode"
       => /\ Len(lzw.st.added) = Len(lzw.st.result)
          /\ lzw.st.dictSize = SeedSize + Len(lzw.st.result)
  /\ (lzw.pc = "encoded" /\ lzw.outcome = "returned" /\ lzw.st.text # <<>>)
       => /\ Len(lzw.st.added) = Len(lzw.st.result) - 1
          /\ lzw.st.dictSize = SeedSize + Len(lzw.st.result) - 1
          /\ lzw.ret.steps[Len(lzw.ret.steps)].add = Dash

\* lzw.encode("MISSISSIPPI") has returned, with more than one code from
\* the loop and the last from the output after it
C22_Witness ==
  /\ lzw.pc = "encoded"
  /\ lzw.outcome = "returned"
  /\ lzw.st.text = Mississippi
  /\ Len(lzw.st.added) >= 2
  /\ Len(lzw.st.result) = Len(lzw.st.added) + 1


\* C23: encoder output is decodable.  For a text over the code points
\* 0..255, every code lzw.encode emits is the code of a dictionary key
\* (never undefined), the first is below 256 and the j-th is at most
\* 256 + j - 2; and lzw.decode of what lzw.encode returned for a non-empty
\* text returns neither the format error nor the invalid-code error.
C23_Decodable ==
  /\ (lzw.pc \in {"encode", "encoded"} /\ InSeedRange(lzw.st.text))
       => \A j \in 1..Len(lzw.st.result) :
            /\ lzw.st.result[j] # Null
            /\ lzw.st.result[j][1] >= 0
            /\ j = 1 => lzw.st.result[j][1] < SeedSize
            /\ j >= 2 => lzw.st.result[j][1] <= SeedSize + j - 2
            /\ LET before == SubSeq(lzw.st.added, 1,
                                    IF j - 1 < Len(lzw.st.added) THEN j - 1
                                    ELSE Len(lzw.st.added))
               IN  /\ LzwHasOwn(before, lzw.st.steps[j].w)
                   /\ lzw.st.steps[j].output = lzw.st.result[j]
  /\ (lzw.pc = "decoded" /\ lzw.own /\ lzw.enc.text # <<>> /\ InSeedRange(lzw.enc.text))
       => /\ lzw.ret # Returned(LzwFormatError)
          /\ lzw.ret # Returned(LzwInvalidCode)

\* lzw.decode has returned for the output of lzw.encode("AAAA"), whose
\* second code is the one the decoder is about to assign
C23_Witness ==
  /\ lzw.pc = "decoded"
  /\ lzw.own
  /\ lzw.enc.text = FourAs
  /\ lzw.enc.result[2] = Some(SeedSize)
  /\ lzw.ret = Returned(FourAs)


\* C24: RLE maximal runs and trace.  For a non-empty text rle.encode
\* returns one trace record for each maximal run: the intervals
\* [index, index + length) start at 0, follow one another and end at the
\* end of the text, the symbols inside an interval are equal, neighbouring
\* intervals carry different symbols, outputChunk is the symbol followed by
\* the decimal length, and currentEncoded is the chunks so far in a row,
\* the last one being encoded.
C24_RleTrace ==
  (rle.pc = "encoded" /\ rle.text # <<>>)
    => LET trace == rle.ret.animationSteps
       IN  /\ IsRunLengthTrace(rle.text, trace)
           /\ TotalLength(trace) = Len(rle.text)
           /\ \A k \in 1..Len(trace) :
                trace[k].currentEncoded = ChunksOf(SubSeq(trace, 1, k))
           /\ trace[Len(trace)].currentEncoded = rle.ret.encoded
           /\ Len(rle.ret.steps) = Len(trace)
           /\ \A k \in 1..Len(trace) :
                /\ rle.ret.steps[k].output = trace[k].outputChunk
                /\ rle.ret.steps[k].count = trace[k].length

\* rle.encode has returned for a text of three runs or more in which a
\* symbol comes back after another one and a run is longer than one
C24_Witness ==
  /\ rle.pc = "encoded"
  /\ rle.text # <<>>
  /\ Len(rle.ret.animationSteps) >= 3
  /\ \E k \in 1..Len(rle.ret.animationSteps) : rle.ret.animationSteps[k].length >= 2
  /\ rle.text[1] = rle.text[Len(rle.text)]


\* the trace of huffman.encode: the first record, then one record for each
\* position of text with the symbol there, its code in the table and the
\* codes so far in a row
IsHuffTrace(text, res) ==
  LET trace == res.animationSteps
  IN  /\ Len(trace) = Len(text) + 1
      /\ trace[1] = HuffFirstStep
      /\ \A i \in 1..Len(text) :
           /\ trace[i + 1].index = i - 1
           /\ trace[i + 1].length = 1
           /\ trace[i + 1].lookupChar = Some(<<text[i]>>)
           /\ ObjHas(res.map, <<text[i]>>)
           /\ trace[i + 1].lookupCode = ObjGet(res.map, <<text[i]>>)
           /\ trace[i + 1].outputChunk = trace[i + 1].lookupCode
           /\ trace[i + 1].currentEncoded =
                trace[i].currentEncoded \o ObjGet(res.map, <<text[i]>>)[1]
      /\ trace[Len(trace)].currentEncoded = res.encoded

\* C25: Huffman trace.  For a non-empty text of length n huffman.encode
\* returns n + 1 trace records: the "dictionary built" record without
\* output, then for each position i the record of text[i], its code from
\* the code table and the codes of text[0..i] in a row; the last
\* cumulative string is encoded.
C25_HuffTrace ==
  (huff.pc = "encoded" /\ huff.text # <<>>) => IsHuffTrace(huff.text, huff.ret)

\* the trace of the texts without surrogate pairs
HuffTraceOfUnits ==
  (huff.pc = "encoded" /\ huff.text # <<>> /\ NoPairs(huff.text))
    => IsHuffTrace(huff.text, huff.ret)


\* node is a leaf of one symbol, or an internal node without a symbol, with
\* two children, the sum of their weights and the lighter child on the left
RECURSIVE IsHuffmanNode(_)
IsHuffmanNode(node) ==
  IF node.char # Null
  THEN node.left = Null /\ node.right = Null /\ node.freq >= 1
  ELSE /\ node.left # Null
       /\ node.right # Null
       /\ node.freq = node.left[1].freq + node.right[1].freq
       /\ node.left[1].freq <= node.right[1].freq
       /\ IsHuffmanNode(node.left[1])
       /\ IsHuffmanNode(node.right[1])

\* the leaves below node, from left to right
RECURSIVE LeavesOf(_)
LeavesOf(node) ==
  IF node.char # Null THEN <<node>>
  ELSE LeavesOf(node.left[1]) \o LeavesOf(node.right[1])

RECURSIVE LeavesOfAll(_)
LeavesOfAll(queue) ==
  IF queue = <<>> THEN <<>> ELSE LeavesOf(queue[1]) \o LeavesOfAll(Tail(queue))

RECURSIVE TotalWeight(_)
TotalWeight(queue) ==
  IF queue = <<>> THEN 0 ELSE queue[1].freq + TotalWeight(Tail(queue))

\* every symbol of text is at one leaf, weighted by its frequency, and no
\* leaf carries anything else
LeavesMatch(text, queue) ==
  LET leaves == LeavesOfAll(queue)
  IN  /\ \A k \in 1..Len(CodePoints(text)) :
           Cardinality({j \in 1..Len(leaves) :
                          leaves[j].char = Some(CodePoints(text)[k])}) = 1
      /\ \A j \in 1..Len(leaves) :
           leaves[j].freq = Occurrences(text, leaves[j].char[1])

\* the working set of huffman.encode, with the weights adding up to total
HuffmanForest(st, total) ==
  /\ st.queue # <<>>
  /\ TotalWeight(st.queue) = total
  /\ \A k \in 1..Len(st.queue) : IsHuffmanNode(st.queue[k])
  /\ LeavesMatch(st.text, st.queue)
  /\ Len(LeavesOfAll(st.queue)) = Len(st.freq)

\* C26: Huffman tree construction.  At every iteration of the merge loop
\* the weights of the nodes of the working set add up to len(text); every
\* internal node has no symbol, two children, the sum of their weights and
\* left weight <= right weight; when the loop has ended one root of weight
\* len(text) is left, and every distinct symbol of the text is at exactly
\* one leaf, weighted by its frequency.
C26_TreeInvariant ==
  /\ huff.pc = "merge" => HuffmanForest(huff.st, Len(huff.st.text))
  /\ huff.pc = "encode"
       => /\ HuffmanForest(huff.st, Len(huff.st.text))
          /\ Len(huff.st.queue) = 1
          /\ huff.st.queue[1].freq = Len(huff.st.text)

\* the same with the weights adding up to the number of code points
TreeInvariantOfCodePoints ==
  /\ huff.pc = "merge" => HuffmanForest(huff.st, Len(CodePoints(huff.st.text)))
  /\ huff.pc = "encode"
       => /\ HuffmanForest(huff.st, Len(CodePoints(huff.st.text)))
          /\ Len(huff.st.queue) = 1
          /\ huff.st.queue[1].freq = Len(CodePoints(huff.st.text))

\* every iteration of the merge loop makes the working set one node smaller
MergeShrinksByOne ==
  [][(huff.pc = "merge" /\ huff'.pc = "merge")
       => Len(huff'.st.queue) = Len(huff.st.queue) - 1]_vars


\* the panel of every step of a trace that carries an output chunk shows the
\* cumulative output of the step
PanelShows(trace, encodedOf(_), chunkOf(_)) ==
  \A k \in 1..Len(trace) :
    Truthy(chunkOf(trace[k]))
      => /\ encodedOf(trace[k]) # Null
         /\ OutputPanel(encodedOf(trace[k]), chunkOf(trace[k])) = encodedOf(trace[k])[1]

RlePanelShows ==
  LET encodedOf(step) == Some(step.currentEncoded)
      chunkOf(step) == Some(step.outputChunk)
  IN  (rle.pc = "encoded" /\ rle.text # <<>>)
        => PanelShows(rle.ret.animationSteps, encodedOf, chunkOf)

HuffPanelShows ==
  LET encodedOf(step) == Some(step.currentEncoded)
      chunkOf(step) == step.outputChunk
  IN  (huff.pc = "encoded" /\ huff.text # <<>>)
        => PanelShows(huff.ret.animationSteps, encodedOf, chunkOf)

LzwPanelShows ==
  LET encodedOf(step) == step.currentEncoded
      chunkOf(step) == step.outputChunk
  IN  (lzw.pc = "encoded" /\ lzw.outcome = "returned" /\ lzw.st.text # <<>>)
        => PanelShows(lzw.ret.animationSteps, encodedOf, chunkOf)

\* C30: output panel consistency.  For every codec and every step of the
\* trace that carries an output chunk, the confirmed part
\* currentEncoded.slice(0, lastIndexOf(outputChunk)) followed by the
\* highlighted outputChunk is the step's currentEncoded.
C30_OutputPanel == RlePanelShows /\ HuffPanelShows /\ LzwPanelShows

\* the same for RLE, for Huffman, and for the last step of an LZW trace
OutputPanelOfSuffixChunks ==
  /\ RlePanelShows
  /\ HuffPanelShows
  /\ (lzw.pc = "encoded" /\ lzw.outcome = "returned" /\ lzw.st.text # <<>>)
       => LET last == lzw.ret.animationSteps[Len(lzw.ret.animationSteps)]
          IN  OutputPanel(last.currentEncoded, last.outputChunk) = last.currentEncoded[1]


\* C27: step-player index bounds.  Whenever Visualizer or ImageVisualizer
\* is rendered, for a result with at least one trace record,
\* 0 <= currentStepIndex <= steps.length - 1, whatever the order of button
\* clicks, play / pause, speed changes, timer ticks and new results.
C27_IndexBounds ==
  app.player # Null
    => LET p == app.player[1]
           result == IF app.activeTab = "text" THEN app.compressionResult
                     ELSE app.imgResult
       IN  /\ result # Null
           /\ p.length = Len(result[1].animationSteps)
           /\ p.length >= 1
           /\ 0 <= p.currentStepIndex
           /\ p.currentStepIndex <= p.length - 1

\* ImageVisualizer plays the 57 steps of the checkerboard and is at the
\* last one, the interval still set
C27_Witness ==
  /\ app.player # Null
  /\ app.activeTab = "image"
  /\ app.player[1].length = 57
  /\ app.player[1].currentStepIndex = 56
  /\ app.player[1].isPlaying
  /\ app.player[1].timer # Null


\* what a tick does to the player p, giving q: while playing before the
\* last step the index goes up by one, at the last step playing ends and
\* the index stays, and with playing off the index stays
TickAdvances(p, q) ==
  /\ (p.isPlaying /\ p.currentStepIndex < p.length - 1)
       => q.currentStepIndex = p.currentStepIndex + 1 /\ q.isPlaying
  /\ (p.isPlaying /\ p.currentStepIndex = p.length - 1)
       => q.currentStepIndex = p.currentStepIndex /\ ~q.isPlaying
  /\ ~p.isPlaying => q.currentStepIndex = p.currentStepIndex /\ ~q.isPlaying

\* playback has ended at the last step
StoppedAtLast ==
  IF app.player = Null THEN FALSE
  ELSE ~app.player[1].isPlaying
         /\ app.player[1].currentStepIndex = app.player[1].length - 1

\* C28: autoplay terminates.  With a user who does nothing once playback
\* is on, every timer tick advances currentStepIndex by exactly one until it
\* is steps.length - 1, the next tick sets isPlaying to false and leaves the
\* index, no tick changes the index while isPlaying is false, and playback
\* always eventually stops at the last step.
C28_AutoplayTerminates ==
  /\ [][Tick => TickAdvances(app.player[1], app'.player[1])]_vars
  /\ Playing ~> StoppedAtLast

\* the tick at the last of three steps or more has just ended playback; the
\* interval is not cleared yet
C28_Witness ==
  /\ app.player # Null
  /\ app.player[1].length >= 3
  /\ app.player[1].currentStepIndex = app.player[1].length - 1
  /\ ~app.player[1].isPlaying
  /\ app.player[1].timer # Null
  /\ app.player[1].pending = "timer"


\* the state half of C29: a stored result is the result of the encoder of
\* the current algo for the current inputText; the arguments of a call of
\* huffman.decode by handleDecompress are the current decodeInput and the
\* table huffman.encode makes of the current inputText, and decodeResult is
\* what that call returned; without a result, what handleDecompress shows
\* for Huffman is its own error text
FreshTable ==
  /\ app.compressionResult # Null
       => /\ app.inputText # <<>>
          /\ app.compressionResult[1] = CompressCall(app.algo, app.inputText).val
  /\ app.huffmanDecodeArgs # Null
       => /\ app.algo = "huffman"
          /\ app.compressionResult # Null
          /\ app.huffmanDecodeArgs[1].codeMapJSON = HuffEncode(app.inputText).serializedMap
          /\ app.huffmanDecodeArgs[1].encodedText = app.decodeInput
          /\ app.decodeResult =
               HuffDecode(StringArg(app.decodeInput),
                          StringArg(HuffEncode(app.inputText).serializedMap)).val
  /\ (app.algo = "huffman" /\ app.compressionResult = Null /\ app.decodeResult # <<>>)
       => app.decodeResult = NeedTableError /\ app.huffmanDecodeArgs = Null

\* the action half of C29: a change of inputText or algo clears the four
\* states
ChangeClears ==
  (app'.inputText # app.inputText \/ app'.algo # app.algo)
    => /\ app'.compressionResult = Null
       /\ app'.decodeInput = <<>>
       /\ app'.decodeResult = <<>>
       /\ app'.compareData = <<>>

\* C29: no stale Huffman table.  After any sequence of input edits,
\* algorithm changes, compress, compare and decompress actions, the code
\* table handleDecompress passes to huffman.decode was produced by
\* huffman.encode of the current inputText (a change of inputText or algo
\* clears compressionResult, decodeInput, decodeResult and compareData);
\* without such a result decode is not called and handleDecompress shows
\* its own error text.
C29_NoStaleTable == []FreshTable /\ [][ChangeClears]_vars

\* after edits of the input and of the algorithm, handleDecompress has
\* decoded the bits of "MISSISSIPPI" with the table of "MISSISSIPPI"
C29_Witness ==
  /\ app.huffmanDecodeArgs # Null
  /\ app.inputText = Mississippi
  /\ app.decodeResult = Mississippi
  /\ app.compareData # <<>>

\* without a result, handleDecompress has shown its own error text for bits
\* typed by hand
NeedTableShown ==
  /\ app.algo = "huffman"
  /\ app.compressionResult = Null
  /\ app.decodeInput # <<>>
  /\ app.decodeResult = NeedTableError

====
